---- MODULE Spec2Model ----
(***************************************************************************)
(* Model of the police-data pipeline: the column standardizer              *)
(* (data_fetcher.py), the table store with its two cache backends          *)
(* (database.py) and the agent that owns a DatabaseManager per question    *)
(* (llm_agent.py, app.py).                                                 *)
(*                                                                         *)
(* Strings are sequences of one-character strings, so that lower(),        *)
(* replace(), strip() and the substring tests are computed as Python       *)
(* computes them.                                                          *)
(***************************************************************************)
EXTENDS Integers, Sequences, FiniteSets, TLC

VARIABLES
    \* ---- table-name specification (SpecName)
    department,      \* the identifier handed to _get_table_name
    table_name,      \* its result, or NoValue before the call
    \* ---- standardizer specification (SpecStd)
    df,              \* the source table handed to _standardize_columns
    std_df,          \* its output, or NoValue
    clean_data,      \* the table store_police_data persists from it, or NoValue
    \* ---- store / cache specification (Spec)
    tables,          \* the SQLite file: table name -> content
    reads,           \* number of read operations so far
    load,            \* the running store_police_data call (pc, arguments)
    redis,           \* the Redis key space (backend shared by all managers)
    memory_cache,    \* _memory_cache of each DatabaseManager instance
    now,             \* time.time() in seconds
    ticks,           \* number of clock advances so far
    loads,           \* number of store_police_data calls so far
    last,            \* what the last step did, per backend
    \* ---- translator specification (SpecGen)
    gen_call,        \* the arguments and the environment of generate_sql_query
    gen_result,      \* what the call returned, or NoResult
    \* ---- substitution specification (SpecSub)
    sub_query,       \* the query text handed to execute_sql_query
    sub_result,      \* the text after the substitution, once and twice
    exec_last,       \* the last call of execute_sql_query under cache faults
    exp_call,        \* the arguments of a call of _generate_explanation
    exp_result       \* the sentence it returned

nameVars == <<department, table_name>>
stdVars == <<df, std_df, clean_data>>
dbVars == <<tables, reads, load, redis, memory_cache, now, ticks, loads, last>>
genVars == <<gen_call, gen_result>>
subVars == <<sub_query, sub_result>>
execVars == <<exec_last>>
expVars == <<exp_call, exp_result>>
vars == <<department, table_name, df, std_df, clean_data,
          tables, reads, load, redis, memory_cache, now, ticks, loads, last,
          gen_call, gen_result, sub_query, sub_result, exec_last, exp_call, exp_result>>

\* "not computed yet" for a value that is a sequence once computed
NoValue == <<>>

(***************************************************************************)
(* Python str operations on character sequences                            *)
(***************************************************************************)
UpperChars ==
    <<"A","B","C","D","E","F","G","H","I","J","K","L","M",
      "N","O","P","Q","R","S","T","U","V","W","X","Y","Z">>

LowerChars ==
    <<"a","b","c","d","e","f","g","h","i","j","k","l","m",
      "n","o","p","q","r","s","t","u","v","w","x","y","z">>

LowerMap ==
    [c \in {UpperChars[i] : i \in 1..Len(UpperChars)} |->
        LowerChars[CHOOSE i \in 1..Len(UpperChars) : UpperChars[i] = c]] @@ << >>

UpperMap ==
    [c \in {LowerChars[i] : i \in 1..Len(LowerChars)} |->
        UpperChars[CHOOSE i \in 1..Len(LowerChars) : LowerChars[i] = c]] @@ << >>

Lower(s) ==
    [i \in 1..Len(s) |-> IF s[i] \in DOMAIN LowerMap THEN LowerMap[s[i]] ELSE s[i]]

Upper(s) ==
    [i \in 1..Len(s) |-> IF s[i] \in DOMAIN UpperMap THEN UpperMap[s[i]] ELSE s[i]]

StartsWithAt(s, i, p) ==
    /\ i + Len(p) - 1 <= Len(s)
    /\ \A k \in 1..Len(p) : s[i + k - 1] = p[k]

Contains(s, p) == \E i \in 1..(Len(s) - Len(p) + 1) : StartsWithAt(s, i, p)

StartsWith(s, p) == StartsWithAt(s, 1, p)

EndsWith(s, p) == Len(p) <= Len(s) /\ StartsWithAt(s, Len(s) - Len(p) + 1, p)

\* str.find, counting from 1: the first position of p in s, 0 when absent
Find(s, p) ==
    IF Contains(s, p)
    THEN CHOOSE i \in 1..(Len(s) - Len(p) + 1) :
             /\ StartsWithAt(s, i, p)
             /\ \A j \in 1..(i - 1) : ~StartsWithAt(s, j, p)
    ELSE 0

\* s[i:] and s[:i] with Python's 0-based offsets
From(s, i) == SubSeq(s, i + 1, Len(s))
UpTo(s, i) == SubSeq(s, 1, i)

Whitespace == {" ", "\n", "\t"}

\* str.strip()
RECURSIVE StripWs(_)
StripWs(s) ==
    IF s = <<>> THEN s
    ELSE IF Head(s) \in Whitespace THEN StripWs(Tail(s))
    ELSE IF s[Len(s)] \in Whitespace THEN StripWs(SubSeq(s, 1, Len(s) - 1))
    ELSE s

RECURSIVE ReplaceFrom(_, _, _, _)
ReplaceFrom(s, i, old, new) ==
    IF i > Len(s) THEN <<>>
    ELSE IF StartsWithAt(s, i, old)
         THEN new \o ReplaceFrom(s, i + Len(old), old, new)
         ELSE <<s[i]>> \o ReplaceFrom(s, i + 1, old, new)

Replace(s, old, new) == ReplaceFrom(s, 1, old, new)

RECURSIVE LStrip(_, _)
LStrip(s, c) == IF s # <<>> /\ Head(s) = c THEN LStrip(Tail(s), c) ELSE s

RECURSIVE RStrip(_, _)
RStrip(s, c) ==
    IF s # <<>> /\ s[Len(s)] = c THEN RStrip(SubSeq(s, 1, Len(s) - 1), c) ELSE s

Strip(s, c) == RStrip(LStrip(s, c), c)

LowerLetters ==
    {"a","b","c","d","e","f","g","h","i","j","k","l","m",
     "n","o","p","q","r","s","t","u","v","w","x","y","z"}
Digits == {"0","1","2","3","4","5","6","7","8","9"}
IsAlnum(c) == c \in LowerLetters \/ c \in Digits \/ c \in DOMAIN LowerMap

(***************************************************************************)
(* DatabaseManager._get_table_name                                         *)
(***************************************************************************)
RECURSIVE CollapseUnderscores(_)
CollapseUnderscores(s) ==
    IF Contains(s, <<"_","_">>)
    THEN CollapseUnderscores(Replace(s, <<"_","_">>, <<"_">>))
    ELSE s

TablePrefix == <<"p","o","l","i","c","e","_","d","a","t","a","_">>

CleanDept(dept) ==
    LET c0 == Lower(dept)
        c1 == Replace(c0, <<" ","p","o","l","i","c","e"," ","d","e","p","a","r","t","m","e","n","t">>, <<>>)
        c2 == Replace(c1, <<"p","o","l","i","c","e"," ","d","e","p","a","r","t","m","e","n","t">>, <<>>)
        c3 == Replace(c2, <<"d","e","p","a","r","t","m","e","n","t">>, <<>>)
        c4 == Replace(c3, <<" ","p","o","l","i","c","e">>, <<>>)
        c5 == Replace(c4, <<"p","o","l","i","c","e">>, <<>>)
        c6 == Replace(c5, <<" ">>, <<"_">>)
        c7 == Replace(c6, <<"-">>, <<"_">>)
        c8 == Strip(c7, "_")
    IN  CollapseUnderscores(c8)

GetTableName(dept) == TablePrefix \o CleanDept(dept)

(***************************************************************************)
(* SpecName: _get_table_name applied to identifiers built from words       *)
(***************************************************************************)
MaxWords == 3

Words ==
    { <<"S","e","a","t","t","l","e">>,
      <<"S","t",".">>,
      <<"L","o","u","i","s">>,
      <<" ","P","o","l","i","c","e"," ","D","e","p","a","r","t","m","e","n","t">>,
      <<"p","o","l","i","c","e">>,
      <<"d","e","p","a","r","t","m","e","n","t">>,
      <<" ">>, <<"-">>, <<"_">>, <<"9">> }

RECURSIVE Phrases(_)
Phrases(n) ==
    IF n = 0 THEN { <<>> }
    ELSE LET shorter == Phrases(n - 1)
         IN  shorter \cup { p \o w : p \in shorter, w \in Words }

Identifiers == Phrases(MaxWords)

InitName ==
    /\ department \in Identifiers
    /\ table_name = NoValue

get_table_name ==
    /\ table_name = NoValue
    /\ table_name' = GetTableName(department)
    /\ UNCHANGED department


(***************************************************************************)
(* Tables: a sequence of columns; a column is its name and the identity of *)
(* its values (src = position of the source column the values come from,   *)
(* NullSrc for a column filled with None).                                 *)
(***************************************************************************)
NullSrc == 0

Col(name, src) == [name |-> name, src |-> src]

Names(t) == [i \in 1..Len(t) |-> t[i].name]

HasColumn(t, name) == \E i \in 1..Len(t) : t[i].name = name

\* the duplicated columns are all kept
DropDuplicatedKeepsAll(t) == t

\* df.loc[:, ~df.columns.duplicated()] : keep the first column of each name
RECURSIVE DropDuplicated(_)
DropDuplicated(t) ==
    IF t = <<>> THEN <<>>
    ELSE LET init == SubSeq(t, 1, Len(t) - 1)
             lastc == t[Len(t)]
         IN  IF HasColumn(init, lastc.name)
             THEN DropDuplicated(init)
             ELSE Append(DropDuplicated(init), lastc)

\* df[name] = None
SetNull(t, name) ==
    IF HasColumn(t, name)
    THEN [i \in 1..Len(t) |-> IF t[i].name = name THEN Col(name, NullSrc) ELSE t[i]]
    ELSE Append(t, Col(name, NullSrc))

\* df.drop(columns=[name])
RECURSIVE DropColumn(_, _)
DropColumn(t, name) ==
    IF t = <<>> THEN <<>>
    ELSE IF Head(t).name = name THEN DropColumn(Tail(t), name)
         ELSE <<Head(t)>> \o DropColumn(Tail(t), name)

(***************************************************************************)
(* RealDataFetcher._standardize_columns                                    *)
(***************************************************************************)
C_stop_date == <<"s","t","o","p","_","d","a","t","e">>
C_time == <<"t","i","m","e">>
C_driver_race == <<"d","r","i","v","e","r","_","r","a","c","e">>
C_driver_gender == <<"d","r","i","v","e","r","_","g","e","n","d","e","r">>
C_driver_age == <<"d","r","i","v","e","r","_","a","g","e">>
C_search_conducted == <<"s","e","a","r","c","h","_","c","o","n","d","u","c","t","e","d">>
C_contraband_found == <<"c","o","n","t","r","a","b","a","n","d","_","f","o","u","n","d">>
C_arrest_made == <<"a","r","r","e","s","t","_","m","a","d","e">>
C_citation_issued == <<"c","i","t","a","t","i","o","n","_","i","s","s","u","e","d">>
C_warning_issued == <<"w","a","r","n","i","n","g","_","i","s","s","u","e","d">>
C_use_of_force == <<"u","s","e","_","o","f","_","f","o","r","c","e">>
C_stop_outcome == <<"s","t","o","p","_","o","u","t","c","o","m","e">>
C_lat == <<"l","a","t">>
C_longitude == <<"l","o","n","g","i","t","u","d","e">>
C_district == <<"d","i","s","t","r","i","c","t">>
C_lng == <<"l","n","g">>

\* every date/time column is renamed to stop_date
DateTimeBranchAlways(col_lower, col) == C_stop_date

\* lines 223-227: a date/time column is renamed only when it names the stop
\* or is a datetime
DateTimeBranch(col_lower, col) ==
    IF Contains(col_lower, <<"s","t","o","p">>) THEN C_stop_date
    ELSE IF Contains(col_lower, <<"d","a","t","e","t","i","m","e">>) THEN C_stop_date
    ELSE col

\* the branch chain of the loop body: the name col is renamed to (col itself
\* when no branch assigns column_mapping[col])
MapColumn(col) ==
    LET col_lower == Replace(Replace(Lower(col), <<"_">>, <<>>), <<" ">>, <<>>)
        Has(k) == Contains(col_lower, k)
        date == <<"d","a","t","e">>
        race == <<"r","a","c","e">>
        ethnicity == <<"e","t","h","n","i","c","i","t","y">>
        subject == <<"s","u","b","j","e","c","t">>
        driver == <<"d","r","i","v","e","r">>
        sex == <<"s","e","x">>
        gender == <<"g","e","n","d","e","r">>
        age == <<"a","g","e">>
        search == <<"s","e","a","r","c","h">>
        conducted == <<"c","o","n","d","u","c","t","e","d">>
        performed == <<"p","e","r","f","o","r","m","e","d">>
        contraband == <<"c","o","n","t","r","a","b","a","n","d">>
        found == <<"f","o","u","n","d">>
        arrest == <<"a","r","r","e","s","t">>
        made == <<"m","a","d","e">>
        citation == <<"c","i","t","a","t","i","o","n">>
        issued == <<"i","s","s","u","e","d">>
        warning == <<"w","a","r","n","i","n","g">>
        outcome == <<"o","u","t","c","o","m","e">>
        disposition == <<"d","i","s","p","o","s","i","t","i","o","n">>
        lon == <<"l","o","n">>
        precinct == <<"p","r","e","c","i","n","c","t">>
    IN  IF Has(date) \/ Has(C_time)
        THEN DateTimeBranch(col_lower, col)
        ELSE IF Has(race) \/ Has(ethnicity)
        THEN IF Has(subject) \/ Has(driver) THEN C_driver_race ELSE col
        ELSE IF Has(sex) \/ Has(gender)
        THEN IF Has(subject) \/ Has(driver) THEN C_driver_gender ELSE col
        ELSE IF Has(age)
        THEN IF Has(subject) \/ Has(driver) THEN C_driver_age ELSE col
        ELSE IF Has(search) /\ (Has(conducted) \/ Has(performed)) THEN C_search_conducted
        ELSE IF Has(contraband) /\ Has(found) THEN C_contraband_found
        ELSE IF Has(arrest) /\ (Has(made) \/ Has(performed)) THEN C_arrest_made
        ELSE IF Has(citation) /\ Has(issued) THEN C_citation_issued
        ELSE IF Has(warning) /\ Has(issued) THEN C_warning_issued
        ELSE IF Has(outcome) \/ Has(disposition) THEN C_stop_outcome
        ELSE IF Has(C_lat) /\ ~Has(lon) /\ ~Has(C_lng) THEN C_lat
        ELSE IF Has(lon) \/ Has(C_lng) THEN C_longitude
        ELSE IF Has(C_district) \/ Has(precinct) THEN C_district
        ELSE col

required_columns == <<C_stop_date, C_driver_race, C_driver_gender>>

\* the loop stops one required column early
RECURSIVE EnsureRequiredButLast(_, _)
EnsureRequiredButLast(t, i) ==
    IF i >= Len(required_columns) THEN t
    ELSE EnsureRequiredButLast(IF HasColumn(t, required_columns[i]) THEN t
                               ELSE SetNull(t, required_columns[i]), i + 1)

\* lines 268-273: a required column that is absent is added as None
RECURSIVE EnsureRequired(_, _)
EnsureRequired(t, i) ==
    IF i > Len(required_columns) THEN t
    ELSE EnsureRequired(IF HasColumn(t, required_columns[i]) THEN t
                        ELSE SetNull(t, required_columns[i]), i + 1)

\* df['longitude'] = df['lng']; df = df.drop(columns=['lng'])
LngToLongitude(t) ==
    IF HasColumn(t, C_lng) /\ ~HasColumn(t, C_longitude)
    THEN LET i == CHOOSE k \in 1..Len(t) : t[k].name = C_lng
         IN  DropColumn(Append(t, Col(C_longitude, t[i].src)), C_lng)
    ELSE t

\* the column names of the source tables
SourceNames ==
    { <<"r","a","c","e">>,
      <<"s","u","b","j","e","c","t","_","r","a","c","e">>,
      <<"d","r","i","v","e","r","_","r","a","c","e">>,
      <<"s","u","b","j","e","c","t","_","s","e","x">>,
      <<"d","a","t","e">>,
      <<"S","t","o","p"," ","D","a","t","e">>,
      <<"l","n","g">>,
      <<"l","o","n","g","i","t","u","d","e">>,
      <<"d","r","i","v","e","r","_","r","a","(","c","e">>,
      <<"S","i","d">>,
      <<"s","i","d">>,
      <<"s","t","o","p"," ","i","d">>,
      <<"s","t","o","p","_","i","d">> }

CanonicalNames ==
    << C_stop_date, C_time, C_driver_race, C_driver_gender, C_driver_age,
       C_search_conducted, C_contraband_found, C_arrest_made, C_citation_issued,
       C_warning_issued, C_use_of_force, C_stop_outcome, C_lat, C_longitude,
       C_district >>

Range(f) == { f[i] : i \in DOMAIN f }

\* a source whose columns are race, sex, arrest, date
S_race == <<"r","a","c","e">>
S_sex == <<"s","e","x">>
S_arrest == <<"a","r","r","e","s","t">>
S_date == <<"d","a","t","e">>

ScenarioColumns == <<S_race, S_sex, S_arrest, S_date>>

\* the column_mapping of lines 219-260, tabulated over the names of the
\* source tables
MapOf ==
    [col \in SourceNames \cup Range(CanonicalNames) \cup Range(ScenarioColumns) |->
        MapColumn(col)] @@ << >>

Mapped(col) == IF col \in DOMAIN MapOf THEN MapOf[col] ELSE MapColumn(col)

\* df.rename(columns=column_mapping), line 263
RenameColumns(t) == [i \in 1..Len(t) |-> Col(Mapped(t[i].name), t[i].src)]

\* of the columns renamed to one name the last is kept, not the first
StandardizeColumnsKeepLast(t) ==
    LET rev(q) == [i \in 1..Len(q) |-> q[Len(q) + 1 - i]]
    IN  LngToLongitude(EnsureRequired(rev(DropDuplicated(rev(RenameColumns(t)))), 1))

StandardizeColumns(t) ==
    LngToLongitude(EnsureRequired(DropDuplicated(RenameColumns(t)), 1))

(***************************************************************************)
(* DatabaseManager.store_police_data, lines 116-136: the frame persisted   *)
(***************************************************************************)
RECURSIVE KeepAlnum(_)
KeepAlnum(s) ==
    IF s = <<>> THEN <<>>
    ELSE IF IsAlnum(Head(s)) \/ Head(s) = "_" THEN <<Head(s)>> \o KeepAlnum(Tail(s))
         ELSE KeepAlnum(Tail(s))

CleanCol(col) ==
    LET c1 == Replace(Replace(Replace(col, <<" ">>, <<"_">>), <<"-">>, <<"_">>), <<".">>, <<"_">>)
    IN  Strip(KeepAlnum(c1), "_")

\* clean_data.columns = clean_columns, lines 123-131
CleanColumns(t) == [i \in 1..Len(t) |-> Col(CleanCol(t[i].name), t[i].src)]

CleanData(t) == DropDuplicated(CleanColumns(DropDuplicated(t)))


(***************************************************************************)
(* SpecStd: _standardize_columns and the sanitization of store_police_data *)
(* applied to source tables.  A source table has distinct column names (as *)
(* read_csv delivers them); column i carries the values of source column i.*)
(***************************************************************************)
MaxCols == 3

Reverse(q) == [i \in 1..Len(q) |-> q[Len(q) + 1 - i]]

Distinct(q) == \A i, j \in 1..Len(q) : q[i] = q[j] => i = j

FrameOf(names) == [i \in 1..Len(names) |-> Col(names[i], i)]

RECURSIVE SeqsUpTo(_, _)
SeqsUpTo(S, n) ==
    IF n = 0 THEN { <<>> }
    ELSE LET shorter == SeqsUpTo(S, n - 1)
         IN  shorter \cup { Append(q, x) : q \in shorter, x \in S }

SourceTables == { FrameOf(q) : q \in { r \in SeqsUpTo(SourceNames, MaxCols) : Distinct(r) } }

\* tables in canonical form: distinct canonical names, the three identity
\* fields among them, in schema order; and the full table in reverse order
CanonicalTables ==
    LET picks == { P \in SUBSET Range(CanonicalNames) : Range(required_columns) \subseteq P }
        InOrder(P) == LET In(x) == x \in P IN SelectSeq(CanonicalNames, In)
    IN  { FrameOf(InOrder(P)) : P \in picks } \cup { FrameOf(Reverse(CanonicalNames)) }

ScenarioTables == { FrameOf(ScenarioColumns) }

InitStd ==
    /\ df \in SourceTables \cup CanonicalTables \cup ScenarioTables
    /\ std_df = NoValue
    /\ clean_data = NoValue

standardize_columns ==
    /\ std_df = NoValue
    /\ std_df' = StandardizeColumns(df)
    /\ UNCHANGED <<df, clean_data>>

clean_for_store ==
    /\ std_df # NoValue
    /\ clean_data = NoValue
    /\ clean_data' = CleanData(std_df)
    /\ UNCHANGED <<df, std_df>>


(***************************************************************************)
(* Spec: the store, its tables, the two cache backends and the agents.     *)
(*                                                                         *)
(* Both cache backends are carried side by side: redis is the key space a  *)
(* manager uses when _redis_available, memory_cache is the _memory_cache   *)
(* of app.db_manager when it is not.  The SQLite file is the same under    *)
(* either backend, because store_police_data never consults the cache.     *)
(***************************************************************************)
CACHE_EXPIRY == 3600

MaxTicks == 2
MaxLoads == 2
MaxReads == 2

Backends == {"redis", "memory"}

\* the department of the store / cache specification
Departments == { <<"S","e","a","t","t","l","e"," ","P","o","l","i","c","e"," ","D","e","p","a","r","t","m","e","n","t">> }

\* the departments of the frame specification (SpecDept): two identifiers of
\* one department, one whose table is the metadata table of another, and an
\* unrelated one
AllDepartments ==
    Departments \cup
    { <<"s","e","a","t","t","l","e">>,
      <<"S","e","a","t","t","l","e"," ","m","e","t","a","d","a","t","a">>,
      <<"C","h","i","c","a","g","o">> }

\* the departments generate_sql_query is called with
D_Seattle == <<"S","e","a","t","t","l","e">>
GenDepartments == Departments \cup { D_Seattle }

MetadataSuffix == <<"_","m","e","t","a","d","a","t","a">>

MetadataTable(tn) == tn \o MetadataSuffix

\* the frames handed to store_police_data: outputs of the standardizer with
\* their rows (a row is identified by a number)
Frames ==
    { [columns |-> StandardizeColumns(FrameOf(<<C_stop_date, C_driver_race, C_driver_gender, C_arrest_made>>)),
       rows |-> <<1, 2>>],
      [columns |-> StandardizeColumns(FrameOf(<<<<"s","t","o","p"," ","i","d">>, <<"r","a","c","e">>>>)),
       rows |-> <<>>] }

\* RealDataFetcher._create_metadata: "rows" and "columns" of the frame
CreateMetadata(frame) == [rows |-> Len(frame.rows), columns |-> Names(frame.columns)]

NoMetadata == [rows |-> 0, columns |-> <<>>]

NoFrame == [columns |-> <<>>, rows |-> <<>>]

\* lines 116-136 for each frame, tabulated: the column names persisted
CleanColumnsOf == [f \in Frames \cup {NoFrame} |-> Names(CleanData(f.columns))] @@ << >>

\* the content of a table of the SQLite file
DataContent(frame, id) ==
    [columns |-> CleanColumnsOf[frame], rows |-> frame.rows,
     load |-> id, described |-> NoMetadata]

MetadataColumns == << <<"r","o","w","s">>, <<"c","o","l","u","m","n","s">> >>

MetadataContent(metadata, id) ==
    [columns |-> MetadataColumns, rows |-> <<metadata.rows>>,
     load |-> id, described |-> metadata]

\* SQLite compares column names case-insensitively: CREATE TABLE fails on two
\* names that differ only in case
ToSqlOK(names) == Distinct([i \in 1..Len(names) |-> Lower(names[i])])


\* _get_table_name of each department, tabulated
TableOf == [d \in AllDepartments \cup GenDepartments |-> GetTableName(d)] @@ << >>

(***************************************************************************)
(* Queries.  A query text is the template it instantiates and the table    *)
(* token in its FROM clause; two texts are the same string exactly when    *)
(* both agree.                                                             *)
(***************************************************************************)
Placeholder == <<"p","o","l","i","c","e","_","d","a","t","a">>

Query(tmpl, table) == [tmpl |-> tmpl, table |-> table]

NoQuery == Query("", <<>>)

\* the pattern tier with the generic race predicate tested before the
\* comparative one
PatternTierRaceFirst(question) ==
    LET question_lower == Lower(question)
        Has(k) == Contains(question_lower, k)
    IN  IF Has(<<"t","o","t","a","l"," ","n","u","m","b","e","r"," ","o","f"," ","s","t","o","p","s">>) \/ Has(<<"h","o","w"," ","m","a","n","y"," ","s","t","o","p","s">>)
        THEN "total_stops"
        ELSE IF Has(<<"h","o","w"," ","m","a","n","y"," ","a","r","r","e","s","t","s">>) /\ ~Has(<<"r","a","c","e">>)
        THEN "total_arrests"
        ELSE IF Has(<<"a","r","r","e","s","t">>) /\ Has(<<"r","a","c","e">>)
        THEN "arrests_by_race"
        ELSE IF Has(<<"a","r","r","e","s","t"," ","r","a","t","e">>) /\ Has(<<"b","l","a","c","k">>) /\ Has(<<"w","h","i","t","e">>)
        THEN "compare_arrest_rate"
        ELSE IF Has(<<"c","i","t","a","t","i","o","n">>) /\ Has(<<"i","s","s","u","e","d">>)
        THEN "total_citations"
        ELSE IF Has(<<"w","a","r","n","i","n","g">>) /\ Has(<<"i","s","s","u","e","d">>)
        THEN "total_warnings"
        ELSE IF Has(<<"p","e","a","k"," ","h","o","u","r">>) \/ Has(<<"h","o","u","r">>)
        THEN "stops_by_hour"
        ELSE IF Has(<<"m","o","n","t","h">>) \/ Has(<<"o","v","e","r"," ","t","i","m","e">>)
        THEN "stops_by_month"
        ELSE IF Has(<<"d","i","s","t","r","i","c","t">>) /\ Has(<<"h","i","g","h","e","s","t">>)
        THEN "top_districts"
        ELSE IF Has(<<"a","v","e","r","a","g","e"," ","a","g","e">>)
        THEN "average_age"
        ELSE IF Has(<<"r","a","c","e">>) /\ ~Has(<<"b","r","e","a","k","d","o","w","n">>)
        THEN "stops_by_race"
        ELSE ""

\* PoliceDataLLMAgent.generate_sql_query, pattern tier: the template chosen
\* for a question, "" when no predicate matches
PatternTier(question) ==
    LET question_lower == Lower(question)
        Has(k) == Contains(question_lower, k)
    IN  IF Has(<<"t","o","t","a","l"," ","n","u","m","b","e","r"," ","o","f"," ","s","t","o","p","s">>) \/ Has(<<"h","o","w"," ","m","a","n","y"," ","s","t","o","p","s">>)
        THEN "total_stops"
        ELSE IF Has(<<"h","o","w"," ","m","a","n","y"," ","a","r","r","e","s","t","s">>) /\ ~Has(<<"r","a","c","e">>)
        THEN "total_arrests"
        ELSE IF Has(<<"a","r","r","e","s","t"," ","r","a","t","e">>) /\ Has(<<"b","l","a","c","k">>) /\ Has(<<"w","h","i","t","e">>)
        THEN "compare_arrest_rate"
        ELSE IF Has(<<"a","r","r","e","s","t">>) /\ Has(<<"r","a","c","e">>)
        THEN "arrests_by_race"
        ELSE IF Has(<<"c","i","t","a","t","i","o","n">>) /\ Has(<<"i","s","s","u","e","d">>)
        THEN "total_citations"
        ELSE IF Has(<<"w","a","r","n","i","n","g">>) /\ Has(<<"i","s","s","u","e","d">>)
        THEN "total_warnings"
        ELSE IF Has(<<"p","e","a","k"," ","h","o","u","r">>) \/ Has(<<"h","o","u","r">>)
        THEN "stops_by_hour"
        ELSE IF Has(<<"m","o","n","t","h">>) \/ Has(<<"o","v","e","r"," ","t","i","m","e">>)
        THEN "stops_by_month"
        ELSE IF Has(<<"d","i","s","t","r","i","c","t">>) /\ Has(<<"h","i","g","h","e","s","t">>)
        THEN "top_districts"
        ELSE IF Has(<<"a","v","e","r","a","g","e"," ","a","g","e">>)
        THEN "average_age"
        ELSE IF Has(<<"r","a","c","e">>) /\ ~Has(<<"b","r","e","a","k","d","o","w","n">>)
        THEN "stops_by_race"
        ELSE ""

Questions ==
    { <<"W","h","a","t"," ","i","s"," ","t","h","e"," ","t","o","t","a","l"," ","n","u","m","b","e","r"," ","o","f"," ","s","t","o","p","s","?">>,
      <<"H","o","w"," ","m","a","n","y"," ","s","t","o","p","s"," ","w","e","r","e"," ","t","h","e","r","e","?">>,
      <<"S","h","o","w"," ","s","t","o","p","s"," ","b","y"," ","r","a","c","e">>,
      <<"W","h","a","t"," ","h","a","p","p","e","n","e","d"," ","d","o","w","n","t","o","w","n","?">> }

\* the questions handed to generate_sql_query on its own: the empty one,
\* one per predicate under test, an injection-shaped one, unmatched ones
Q_empty == <<>>
Q_how_many_total_stops == <<"H","o","w"," ","m","a","n","y"," ","t","o","t","a","l"," ","s","t","o","p","s","?">>
Q_arrest_rate_black_white == <<"a","r","r","e","s","t"," ","r","a","t","e"," ","f","o","r"," ","b","l","a","c","k"," ","v","s"," ","w","h","i","t","e">>
Q_arrest_rate_by_race_black_white == <<"a","r","r","e","s","t"," ","r","a","t","e"," ","b","y"," ","r","a","c","e",":"," ","b","l","a","c","k"," ","v","s"," ","w","h","i","t","e">>
Q_how_many_arrests == <<"h","o","w"," ","m","a","n","y"," ","a","r","r","e","s","t","s"," ","w","e","r","e"," ","t","h","e","r","e">>
Q_how_many_arrests_by_race == <<"H","o","w"," ","m","a","n","y"," ","a","r","r","e","s","t","s"," ","b","y"," ","r","a","c","e","?">>
Q_race_breakdown == <<"r","a","c","e"," ","b","r","e","a","k","d","o","w","n">>
Q_injection_stops == <<"h","o","w"," ","m","a","n","y"," ","s","t","o","p","s","'",";"," ","D","R","O","P"," ","T","A","B","L","E"," ","p","o","l","i","c","e","_","d","a","t","a",";"," ","-","-">>
Q_injection == <<"'",";"," ","D","R","O","P"," ","T","A","B","L","E"," ","p","o","l","i","c","e","_","d","a","t","a",";"," ","-","-">>

GenQuestions ==
    Questions \cup
    { Q_empty, Q_how_many_total_stops, Q_arrest_rate_black_white,
      Q_arrest_rate_by_race_black_white, Q_how_many_arrests,
      Q_how_many_arrests_by_race, Q_race_breakdown, Q_injection, Q_injection_stops }

PatternOf == [q \in GenQuestions |-> PatternTier(q)] @@ << >>

\* the columns a template names
TemplateColumns(tmpl) ==
    CASE tmpl = "total_arrests" -> {C_arrest_made}
      [] tmpl = "compare_arrest_rate" -> {C_driver_race, C_arrest_made}
      [] tmpl = "arrests_by_race" -> {C_driver_race, C_arrest_made}
      [] tmpl = "total_citations" -> {C_citation_issued}
      [] tmpl = "total_warnings" -> {C_warning_issued}
      [] tmpl = "stops_by_hour" -> {C_time}
      [] tmpl = "stops_by_month" -> {<<"d","a","t","e">>}
      [] tmpl = "top_districts" -> {C_district}
      [] tmpl = "average_age" -> {C_driver_age}
      [] tmpl = "stops_by_race" -> {C_driver_race}
      [] OTHER -> {}

\* the templates of the pattern tier, in the order of their predicates
PatternTemplates ==
    << "total_stops", "total_arrests", "compare_arrest_rate", "arrests_by_race",
       "total_citations", "total_warnings", "stops_by_hour", "stops_by_month",
       "top_districts", "average_age", "stops_by_race" >>

\* templates whose result is one aggregate row whatever the table holds
Aggregates == {"total_stops", "total_records", "total_arrests", "total_citations",
               "total_warnings", "average_age"}


(***************************************************************************)
(* Results: what a call returns (None, or rows)                            *)
(***************************************************************************)
None == [ok |-> FALSE, rows |-> <<>>]

Rows(r) == [ok |-> TRUE, rows |-> r]

\* a missing table read as a table with no rows
ReadSqlQueryMissingAsEmpty(text, tbls) ==
    IF text.tmpl = "bad_sql" THEN None
    ELSE IF text.table \notin DOMAIN tbls THEN Rows(<<>>)
    ELSE LET t == tbls[text.table]
         IN  IF ~(TemplateColumns(text.tmpl) \subseteq Range(t.columns)) THEN None
             ELSE IF text.tmpl \in Aggregates THEN Rows(<<Len(t.rows)>>)
             ELSE Rows(t.rows)

\* pd.read_sql_query(text(query), conn) on the SQLite file
ReadSqlQuery(text, tbls) ==
    IF \/ text.tmpl = "bad_sql"
       \/ text.table \notin DOMAIN tbls
    THEN None
    ELSE LET t == tbls[text.table]
         IN  IF ~(TemplateColumns(text.tmpl) \subseteq Range(t.columns)) THEN None
             ELSE IF text.tmpl \in Aggregates THEN Rows(<<Len(t.rows)>>)
             ELSE Rows(t.rows)

\* PoliceDataLLMAgent.get_table_info: None on a missing or empty table
HasTableInfo(dept) ==
    /\ TableOf[dept] \in DOMAIN tables
    /\ tables[TableOf[dept]].rows # <<>>

\* what the model call of the generative tier does
LLMOutcomes == {"raise", "empty", "llm_select", "bad_sql"}

\* the model is called only when no pattern matches and a client exists;
\* a call not made has no outcome to choose
LLMCall(question, llm_available) ==
    IF PatternOf[question] = "" /\ llm_available THEN LLMOutcomes ELSE {"raise"}

\* the credential tested before the patterns
GenerateSqlQueryKeyFirst(question, dept, llm_available, llm) ==
    LET tn == TableOf[dept]
    IN  IF ~llm_available THEN Query("total_stops", tn)
        ELSE IF PatternOf[question] # "" THEN Query(PatternOf[question], tn)
        ELSE IF ~HasTableInfo(dept) THEN Query("total_stops", tn)
        ELSE IF llm = "raise" THEN Query("total_records", tn)
        ELSE Query(llm, tn)

\* PoliceDataLLMAgent.generate_sql_query
GenerateSqlQuery(question, dept, llm_available, llm) ==
    LET tn == TableOf[dept]
    IN  IF PatternOf[question] # "" THEN Query(PatternOf[question], tn)
        ELSE IF ~llm_available THEN Query("total_stops", tn)
        ELSE IF ~HasTableInfo(dept) THEN Query("total_stops", tn)
        ELSE IF llm = "raise" THEN Query("total_records", tn)
        ELSE Query(llm, tn)

\* re.sub(r'\bpolice_data\b(?!_)', table_name, query) on the table token
SubstituteTable(query, tn) ==
    IF query.table = Placeholder THEN Query(query.tmpl, tn) ELSE query

(***************************************************************************)
(* The cache: key -> (value, expiry)                                       *)
(***************************************************************************)
QueryKey(text) == [kind |-> "query", tmpl |-> text.tmpl, table |-> text.table]

\* an entry is served up to and including the second of its expiry
LiveInclusive(c, k, t) == k \in DOMAIN c /\ c[k].expiry >= t

Live(c, k, t) == k \in DOMAIN c /\ c[k].expiry > t

\* a data key that leaves the table name out
DataKeyShared(tn) == [kind |-> "data", tmpl |-> "", table |-> <<>>]

DataKey(tn) == [kind |-> "data", tmpl |-> "", table |-> tn]

\* cache_key = f"schema_{table_name}"
SchemaKey(tn) == [kind |-> "schema", tmpl |-> "", table |-> tn]

EmptyCache == [k \in {} |-> None]

\* cache_get: the value, None when absent or expired
CacheGet(c, k, t) == IF Live(c, k, t) THEN Rows(c[k].value) ELSE None

\* the in-process map after cache_get: an expired entry found is deleted
AfterGet(c, k, t) ==
    IF k \in DOMAIN c /\ ~Live(c, k, t) THEN [x \in DOMAIN c \ {k} |-> c[x]] ELSE c

\* cache_set with the default expiry
CacheSet(c, k, v, t) ==
    [x \in DOMAIN c \cup {k} |->
        IF x = k THEN [value |-> v, expiry |-> t + CACHE_EXPIRY] ELSE c[x]]

\* Redis drops a key when its TTL is over
RedisExpire(c, t) == [x \in {k \in DOMAIN c : c[k].expiry > t} |-> c[x]]

\* "if cached_result:" - None and the empty list are both falsy
Truthy(r) == r.ok /\ r.rows # <<>>

\* lines 202-217 of execute_sql_query (the same shape in get_police_data)
\* against a cache c: the rows returned, whether the store was asked, and
\* the cache afterwards
CachedRead(c, k, text, tbls, t) ==
    LET cached == CacheGet(c, k, t)
        fresh == ReadSqlQuery(text, tbls)
    IN  IF Truthy(cached)
        THEN [result |-> cached, executed |-> FALSE, cache |-> c]
        ELSE [result |-> fresh, executed |-> TRUE,
              cache |-> IF fresh.ok THEN CacheSet(AfterGet(c, k, t), k, fresh.rows, t)
                        ELSE AfterGet(c, k, t)]


(***************************************************************************)
(* State of Spec                                                           *)
(***************************************************************************)
NoTables == [n \in {} |-> DataContent(NoFrame, 0)]

\* no call of store_police_data is under way.  A call under way carries its
\* arguments, its position, and whether the department had its table and
\* its metadata table when the call began.
Idle == [pc |-> "idle", dept |-> <<>>, frame |-> NoFrame, id |-> 0, loaded |-> FALSE]

Both(x) == [b \in Backends |-> x]

\* what the last call did.  stale says that cache_get came upon an entry of
\* the in-process map under the key of the call whose expiry was over.
Last(op, dept, text, result, executed, read) ==
    [op |-> op, dept |-> dept, text |-> text,
     result |-> result, executed |-> executed, read |-> read,
     stale |-> FALSE]

\* cache_get lines 98-103: self._memory_cache.get(key) gives an entry and
\* its expiry is not later than time.time()
Stale(c, k, t) == k \in DOMAIN c /\ c[k].expiry <= t

InitDb ==
    /\ tables = NoTables
    /\ reads = 0
    /\ load = Idle
    /\ redis = EmptyCache
    /\ memory_cache = EmptyCache
    /\ now = 0
    /\ ticks = 0
    /\ loads = 0
    /\ last = Last("init", <<>>, NoQuery, Both(None), Both(FALSE), <<>>)

\* to_sql with if_exists='append': the rows are added to those already there
ToSqlAppend(tbls, name, content) ==
    [n \in DOMAIN tbls \cup {name} |->
        IF n # name THEN tbls[n]
        ELSE IF name \in DOMAIN tbls
             THEN [content EXCEPT !.rows = tbls[name].rows \o content.rows]
             ELSE content]

\* DataFrame.to_sql(name, if_exists='replace')
ToSqlReplace(tbls, name, content) ==
    [n \in DOMAIN tbls \cup {name} |-> IF n = name THEN content ELSE tbls[n]]

\* DROP TABLE IF EXISTS for each name, then commit
DropTables(tbls, names) == [n \in DOMAIN tbls \ names |-> tbls[n]]

(***************************************************************************)
(* DatabaseManager.store_police_data, one action per statement that        *)
(* commits to the SQLite file                                              *)
(***************************************************************************)
\* lines 113-145: clean the frame, drop both tables (an error is swallowed)
store_drop(dept, frame, ok) ==
    /\ load.pc = "idle"
    /\ loads < MaxLoads
    /\ loads' = loads + 1
    /\ load' = [pc |-> "dropped", dept |-> dept, frame |-> frame, id |-> loads + 1,
                loaded |-> {TableOf[dept], MetadataTable(TableOf[dept])} \subseteq DOMAIN tables]
    /\ tables' = IF ok
                 THEN DropTables(tables, {TableOf[dept], MetadataTable(TableOf[dept])})
                 ELSE tables
    /\ last' = Last("drop", dept, NoQuery, Both(None), Both(FALSE), <<>>)
    /\ UNCHANGED <<reads, redis, memory_cache, now, ticks>>

\* line 148: clean_data.to_sql; an error ends the call with None
store_write_data(ok) ==
    /\ load.pc = "dropped"
    /\ LET tn == TableOf[load.dept]
           content == DataContent(load.frame, load.id)
       IN  IF ok /\ ToSqlOK(content.columns)
           THEN /\ tables' = ToSqlReplace(tables, tn, content)
                /\ load' = [load EXCEPT !.pc = "data_written"]
                /\ last' = Last("to_sql", load.dept, NoQuery, Both(None), Both(FALSE), <<>>)
           ELSE /\ tables' = tables
                /\ load' = Idle
                /\ last' = Last("store", load.dept, NoQuery,
                                Both(None), Both(FALSE), <<>>)
    /\ UNCHANGED <<reads, redis, memory_cache, now, ticks, loads>>

\* lines 151-167: metadata_df.to_sql, return table_name; an error gives None
store_write_metadata(ok) ==
    /\ load.pc = "data_written"
    /\ LET tn == TableOf[load.dept]
           content == MetadataContent(CreateMetadata(load.frame), load.id)
       IN  IF ok
           THEN /\ tables' = ToSqlReplace(tables, MetadataTable(tn), content)
                /\ last' = Last("store", load.dept, NoQuery,
                                Both(Rows(<<>>)), Both(FALSE), <<>>)
           ELSE /\ tables' = tables
                /\ last' = Last("store", load.dept, NoQuery,
                                Both(None), Both(FALSE), <<>>)
    /\ load' = Idle
    /\ UNCHANGED <<reads, redis, memory_cache, now, ticks, loads>>

(***************************************************************************)
(* Reads                                                                   *)
(***************************************************************************)
\* DatabaseManager.execute_sql_query on app.db_manager
execute_sql_query(query, dept) ==
    LET text == SubstituteTable(query, TableOf[dept])
        r == CachedRead(redis, QueryKey(text), text, tables, now)
        m == CachedRead(memory_cache, QueryKey(text), text, tables, now)
    IN  /\ reads < MaxReads
        /\ reads' = reads + 1
        /\ redis' = r.cache
        /\ memory_cache' = m.cache
        /\ last' = [Last("execute", dept, text,
                        [b \in Backends |-> IF b = "redis" THEN r.result ELSE m.result],
                        [b \in Backends |-> IF b = "redis" THEN r.executed ELSE m.executed],
                        text.table)
                    EXCEPT !.stale = Stale(memory_cache, QueryKey(text), now)]
        /\ UNCHANGED <<tables, load, now, ticks, loads>>

\* execute_query_and_explain, lines 331-362: the response built from the
\* generated query and from what execute_sql_query returned for it
Response(query, result) ==
    IF query.tmpl = "empty"
    THEN [success |-> FALSE, has_query |-> FALSE, results |-> None]
    ELSE IF ~result.ok \/ result.rows = <<>>
    THEN [success |-> FALSE, has_query |-> TRUE, results |-> None]
    ELSE [success |-> TRUE, has_query |-> TRUE, results |-> result]

\* app.py line 320: get_llm_agent().execute_query_and_explain(question, dept).
\* The agent is new, and so is its DatabaseManager: with the in-process
\* backend its _memory_cache starts empty and is dropped with the agent.
answer_question(question, dept, llm_available, llm) ==
    LET query == GenerateSqlQuery(question, dept, llm_available, llm)
        text == SubstituteTable(query, TableOf[dept])
        \* llm_agent.py line 331: an empty query is not executed
        NotExecuted(c) == [result |-> None, executed |-> FALSE, cache |-> c]
        r == IF query.tmpl = "empty" THEN NotExecuted(redis)
             ELSE CachedRead(redis, QueryKey(text), text, tables, now)
        m == IF query.tmpl = "empty" THEN NotExecuted(EmptyCache)
             ELSE CachedRead(EmptyCache, QueryKey(text), text, tables, now)
    IN  /\ reads < MaxReads
        /\ reads' = reads + 1
        /\ redis' = r.cache
        /\ last' = Last("answer", dept, text,
                        [b \in Backends |-> IF b = "redis" THEN r.result ELSE m.result],
                        [b \in Backends |-> IF b = "redis" THEN r.executed ELSE m.executed],
                        text.table)
        /\ UNCHANGED <<tables, load, memory_cache, now, ticks, loads>>

\* DatabaseManager.get_police_data on app.db_manager
get_police_data(dept) ==
    LET tn == TableOf[dept]
        text == Query("read_sql_table", tn)
        r == CachedRead(redis, DataKey(tn), text, tables, now)
        m == CachedRead(memory_cache, DataKey(tn), text, tables, now)
    IN  /\ reads < MaxReads
        /\ reads' = reads + 1
        /\ redis' = r.cache
        /\ memory_cache' = m.cache
        /\ last' = [Last("get_data", dept, text,
                        [b \in Backends |-> IF b = "redis" THEN r.result ELSE m.result],
                        [b \in Backends |-> IF b = "redis" THEN r.executed ELSE m.executed],
                        tn)
                    EXCEPT !.stale = Stale(memory_cache, DataKey(tn), now)]
        /\ UNCHANGED <<tables, load, now, ticks, loads>>

\* PRAGMA table_info(table_name): the columns of the table, no row for a
\* table that does not exist (no error is raised)
TableInfo(tn, tbls) == IF tn \in DOMAIN tbls THEN tbls[tn].columns ELSE <<>>

\* lines 234-259 of get_table_schema against a cache c.  The schema is a
\* dict with two keys, truthy whatever its column list: a live entry is
\* always returned.
CachedSchema(c, k, tn, tbls, t) ==
    IF Live(c, k, t)
    THEN [result |-> Rows(c[k].value), executed |-> FALSE, cache |-> c]
    ELSE [result |-> Rows(TableInfo(tn, tbls)), executed |-> TRUE,
          cache |-> CacheSet(AfterGet(c, k, t), k, TableInfo(tn, tbls), t)]

\* DatabaseManager.get_table_schema on app.db_manager; the rows of the
\* result are the column names of the schema
get_table_schema(dept) ==
    LET tn == TableOf[dept]
        r == CachedSchema(redis, SchemaKey(tn), tn, tables, now)
        m == CachedSchema(memory_cache, SchemaKey(tn), tn, tables, now)
    IN  /\ reads < MaxReads
        /\ reads' = reads + 1
        /\ redis' = r.cache
        /\ memory_cache' = m.cache
        /\ last' = [Last("schema", dept, NoQuery,
                        [b \in Backends |-> IF b = "redis" THEN r.result ELSE m.result],
                        [b \in Backends |-> IF b = "redis" THEN r.executed ELSE m.executed],
                        tn)
                    EXCEPT !.stale = Stale(memory_cache, SchemaKey(tn), now)]
        /\ UNCHANGED <<tables, load, now, ticks, loads>>

(***************************************************************************)
(* Environment: the clock and the store                                    *)
(***************************************************************************)
\* the clock advances by half the expiry time.  The program reads the clock
\* only to stamp and to test cache entries, so with nothing cached the time
\* that passes is not observable and is left out.
TickSizes == {CACHE_EXPIRY \div 2}

tick(d) ==
    /\ ticks < MaxTicks
    /\ redis # EmptyCache \/ memory_cache # EmptyCache
    /\ ticks' = ticks + 1
    /\ now' = now + d
    /\ redis' = RedisExpire(redis, now + d)
    /\ last' = Last("tick", <<>>, NoQuery, Both(None), Both(FALSE), <<>>)
    /\ UNCHANGED <<tables, reads, load, memory_cache, loads>>

\* the queries handed to execute_sql_query directly
QueryInputs ==
    { Query("select_all", Placeholder),
      Query("select_all", GetTableName(<<"S","e","a","t","t","l","e">>)),
      Query("bad_sql", Placeholder) }

(***************************************************************************)
(* PoliceDataLLMAgent._clean_sql_response                                  *)
(***************************************************************************)
ThinkOpen == <<"<","t","h","i","n","k",">">>
ThinkClose == <<"<","/","t","h","i","n","k",">">>

\* lines 292-298: cut the reasoning block out
RemoveThink(s) ==
    IF Contains(s, ThinkOpen)
    THEN LET think_start == Find(s, ThinkOpen) - 1
             think_end == Find(s, ThinkClose) - 1
         IN  IF think_end # -1
             THEN UpTo(s, think_start) \o From(s, think_end + 8)
             ELSE UpTo(s, think_start)
    ELSE s

\* the backquote character, written ~ here: a TLA+ string cannot hold a backquote
Backquote == "~"
Fence == <<Backquote, Backquote, Backquote>>

\* lines 301-306: remove the code fences
RemoveFences(s) ==
    LET a == IF StartsWith(s, Fence \o <<"s","q","l">>) THEN From(s, 6)
             ELSE IF StartsWith(s, Fence) THEN From(s, 3)
             ELSE s
    IN  IF EndsWith(a, Fence) THEN UpTo(a, Len(a) - 3) ELSE a

\* lines 309-313: complete an ORDER BY
FixOrderBy(s) ==
    LET u == Upper(s)
    IN  IF EndsWith(u, <<" ","O","R","D","E","R">>) THEN s \o <<" ","B","Y"," ","C","O","U","N","T","(","*",")"," ","D","E","S","C">>
        ELSE IF /\ Contains(u, <<"G","R","O","U","P"," ","B","Y">>)
                /\ ~Contains(u, <<"O","R","D","E","R"," ","B","Y">>)
                /\ Contains(u, <<"C","O","U","N","T","(">>)
             THEN s \o <<" ","O","R","D","E","R"," ","B","Y"," ","C","O","U","N","T","(","*",")"," ","D","E","S","C">>
             ELSE s

\* line 316: MySQL HOUR() to SQLite
FixHour(s) == Replace(s, <<"H","O","U","R","(","t","i","m","e",")">>, <<"C","A","S","T","(","s","u","b","s","t","r","(","t","i","m","e",","," ","1",","," ","2",")"," ","A","S"," ","I","N","T","E","G","E","R",")">>)

\* lines 318-319
DropSemicolon(s) == IF EndsWith(s, <<";">>) THEN UpTo(s, Len(s) - 1) ELSE s

CleanSqlResponse(sql_query) ==
    StripWs(DropSemicolon(FixHour(FixOrderBy(RemoveFences(RemoveThink(sql_query))))))

(***************************************************************************)
(* SpecGen: generate_sql_query on its own.  The environment of a call is   *)
(* the SQLite file get_table_info reads, whether a credential is           *)
(* configured, and what the model call does: it raises (a missing message  *)
(* content raises inside _clean_sql_response just the same) or it returns  *)
(* a text.                                                                 *)
(***************************************************************************)
R_empty == <<>>
R_blank == <<" "," ">>
R_think_only == <<"<","t","h","i","n","k",">","c","o","u","n","t","<","/","t","h","i","n","k",">">>
R_think_open == <<"<","t","h","i","n","k",">","c","o","u","n","t">>
R_prose == <<"I"," ","c","a","n","n","o","t"," ","s","a","y",".">>
R_select == <<"S","E","L","E","C","T"," ","*"," ","F","R","O","M"," ","p","o","l","i","c","e","_","d","a","t","a","_","s","e","a","t","t","l","e",";">>
R_fenced == Fence \o <<"s","q","l","\n","S","E","L","E","C","T"," ","*"," ","F","R","O","M"," ","p","o","l","i","c","e","_","d","a","t","a","\n">> \o Fence
R_think_select == <<"<","t","h","i","n","k",">","o","k","<","/","t","h","i","n","k",">","S","E","L","E","C","T"," ","*"," ","F","R","O","M"," ","p","o","l","i","c","e","_","d","a","t","a","_","s","e","a","t","t","l","e">>

R_think_twice == <<"<","t","h","i","n","k",">","a","<","/","t","h","i","n","k",">","<","t","h","i","n","k",">","b","<","/","t","h","i","n","k",">","S","E","L","E","C","T"," ","1">>
R_prose_fenced == <<"H","e","r","e",":","\n">> \o Fence \o <<"s","q","l","\n","S","E","L","E","C","T"," ","1","\n">> \o Fence
R_order_semicolon == <<"S","E","L","E","C","T"," ","*"," ","F","R","O","M"," ","p","o","l","i","c","e","_","d","a","t","a"," ","O","R","D","E","R",";">>
R_semicolon_blank == <<"S","E","L","E","C","T"," ","1",";"," ">>

Responses ==
    { R_empty, R_blank, R_think_only, R_think_open, R_prose, R_select, R_fenced,
      R_think_select, R_think_twice, R_prose_fenced, R_order_semicolon,
      R_semicolon_blank }

Select == <<"S","E","L","E","C","T">>
From_ == <<" ","F","R","O","M"," ">>

\* what a cleaned response is to the store: nothing, a SELECT over the
\* department's table (or the placeholder), or something SQLite rejects
ClassifyResponse(txt, tn) ==
    IF txt = <<>> THEN "empty"
    ELSE IF /\ StartsWith(Upper(txt), Select)
            /\ \/ EndsWith(txt, From_ \o tn)
               \/ EndsWith(txt, From_ \o Placeholder)
         THEN "llm_select"
         ELSE "bad_sql"

\* the model call made whether or not a credential is configured
LLMCalledWithoutKey(question, dept, llm_available) ==
    PatternOf[question] = "" /\ HasTableInfo(dept)

\* line 265 is reached
LLMCalled(question, dept, llm_available) ==
    PatternOf[question] = "" /\ llm_available /\ HasTableInfo(dept)

NoCall ==
    [question |-> <<>>, dept |-> <<>>, llm_available |-> FALSE,
     raises |-> FALSE, response |-> <<>>]

NoResult == [returned |-> FALSE, query |-> NoQuery, text |-> <<>>, called |-> FALSE]

\* the SQLite file before any load and after one load of each frame
GenTables ==
    { NoTables } \cup
    { ToSqlReplace(ToSqlReplace(NoTables, TableOf[d], DataContent(f, 1)),
                   MetadataTable(TableOf[d]), MetadataContent(CreateMetadata(f), 1)) :
          d \in GenDepartments, f \in Frames }

InitGen ==
    /\ gen_call \in [question : GenQuestions, dept : GenDepartments,
                     llm_available : BOOLEAN, raises : BOOLEAN, response : Responses]
    /\ gen_result = NoResult
    /\ tables \in GenTables
    /\ reads = 0
    /\ load = Idle
    /\ redis = EmptyCache
    /\ memory_cache = EmptyCache
    /\ now = 0
    /\ ticks = 0
    /\ loads = 0
    /\ last = Last("init", <<>>, NoQuery, Both(None), Both(FALSE), <<>>)

\* PoliceDataLLMAgent.generate_sql_query: the query returned (template and
\* table; for a model response also its cleaned text) and whether the model
\* was called
generate_sql_query ==
    /\ gen_result = NoResult
    /\ LET c == gen_call
           tn == TableOf[c.dept]
           called == LLMCalled(c.question, c.dept, c.llm_available)
           cleaned == CleanSqlResponse(c.response)
           llm == IF c.raises THEN "raise" ELSE ClassifyResponse(cleaned, tn)
       IN  gen_result' =
               [returned |-> TRUE,
                query |-> GenerateSqlQuery(c.question, c.dept, c.llm_available, llm),
                text |-> IF called /\ ~c.raises THEN cleaned ELSE <<>>,
                called |-> called]
    /\ UNCHANGED gen_call

(***************************************************************************)
(* SpecSub: the table-name substitution of execute_sql_query on query      *)
(* texts, re.sub(r'\bpolice_data\b(?!_)', table_name, query)               *)
(***************************************************************************)
\* the characters \w matches
WordChars == LowerLetters \cup Range(UpperChars) \cup Digits \cup {"_"}

\* \b at the gap before position i of s (1 .. Len(s) + 1)
WordBoundary(s, i) ==
    LET before == i > 1 /\ s[i - 1] \in WordChars
        after == i <= Len(s) /\ s[i] \in WordChars
    IN  before # after

\* the pattern matches at position i
PlaceholderAt(s, i) ==
    LET j == i + Len(Placeholder)
    IN  /\ StartsWithAt(s, i, Placeholder)
        /\ WordBoundary(s, i)
        /\ WordBoundary(s, j)
        /\ ~(j <= Len(s) /\ s[j] = "_")

\* every match at or after position i replaced, left to right
RECURSIVE ReSubFrom(_, _, _)
ReSubFrom(s, i, tn) ==
    LET matches == { j \in i..Len(s) : PlaceholderAt(s, j) }
    IN  IF matches = {} THEN SubSeq(s, i, Len(s))
        ELSE LET j == CHOOSE m \in matches : \A k \in matches : m <= k
             IN  SubSeq(s, i, j - 1) \o tn \o ReSubFrom(s, j + Len(Placeholder), tn)

ReSub(query, tn) == ReSubFrom(query, 1, tn)

\* the departments of the substitution: an ordinary one, and one whose
\* table name ends in the placeholder (the inner 'police' is removed and
\* the outer letters close up, line 51; the '.' is kept)
D_nested == <<"x",".","p","o","p","o","l","i","c","e","l","i","c","e","_","d","a","t","a">>
SubDepartments == { D_Seattle, D_nested }

SubTableOf == [d \in SubDepartments |-> GetTableName(d)] @@ << >>

MaxTokens == 3

\* the pieces query texts are made of
Tokens ==
    { Placeholder, SubTableOf[D_Seattle], SubTableOf[D_nested],
      <<"_">>, <<"x">>, <<" ">>, <<".">> }

RECURSIVE Flatten(_)
Flatten(ts) == IF ts = <<>> THEN <<>> ELSE Head(ts) \o Flatten(Tail(ts))

SubQueries ==
    { Flatten(ts) : ts \in UNION { [1..n -> Tokens] : n \in 0..MaxTokens } }

NoSubQuery == [text |-> <<>>, dept |-> <<>>]

NoSub == [once |-> <<>>, twice |-> <<>>, done |-> FALSE]

InitSub ==
    /\ sub_query \in [text : SubQueries, dept : SubDepartments]
    /\ sub_result = NoSub

\* execute_sql_query lines 194-198, and the same lines applied to their
\* own result
substitute ==
    /\ ~sub_result.done
    /\ LET tn == SubTableOf[sub_query.dept]
           once == ReSub(sub_query.text, tn)
       IN  sub_result' = [once |-> once, twice |-> ReSub(once, tn), done |-> TRUE]
    /\ UNCHANGED sub_query

(***************************************************************************)
(* SpecExec: execute_sql_query on a DatabaseManager whose Redis client     *)
(* can fail.  cache_get and cache_set catch every exception of the client  *)
(* and turn to the object's _memory_cache (memory_cache here; cache_set    *)
(* creates it when absent, cache_get reads an absent one as empty).        *)
(***************************************************************************)
Faults == [get_fails : BOOLEAN, set_fails : BOOLEAN, store_fails : BOOLEAN]

\* cache_get, lines 86-109: on a failing client the except branch reads the
\* in-process map
CacheGetFaulty(k, get_fails) ==
    IF get_fails THEN CacheGet(memory_cache, k, now) ELSE CacheGet(redis, k, now)

\* a cache_get whose failure is fatal: nothing is read, nothing executed
ExecuteFaultyCacheFatal(query, dept, f) ==
    LET text == SubstituteTable(query, TableOf[dept])
        k == QueryKey(text)
        cached == CacheGetFaulty(k, FALSE)
        fresh == IF f.store_fails THEN None ELSE ReadSqlQuery(text, tables)
        fatal == f.get_fails \/ f.set_fails
        hit == ~fatal /\ Truthy(cached)
        stored == ~fatal /\ ~hit /\ fresh.ok
    IN  [text |-> text,
         result |-> IF fatal THEN None ELSE IF hit THEN cached ELSE fresh,
         executed |-> ~fatal /\ ~hit,
         redis |-> IF stored THEN CacheSet(redis, k, fresh.rows, now) ELSE redis,
         memory_cache |-> memory_cache]

\* DatabaseManager.execute_sql_query, lines 191-226, with the faults f of
\* this call: what it returns and the two maps after it
ExecuteFaulty(query, dept, f) ==
    LET text == SubstituteTable(query, TableOf[dept])
        k == QueryKey(text)
        cached == CacheGetFaulty(k, f.get_fails)
        fresh == IF f.store_fails THEN None ELSE ReadSqlQuery(text, tables)
        hit == Truthy(cached)
        stored == ~hit /\ fresh.ok
    IN  [text |-> text,
         result |-> IF hit THEN cached ELSE fresh,
         executed |-> ~hit,
         redis |-> IF stored /\ ~f.set_fails
                   THEN CacheSet(redis, k, fresh.rows, now) ELSE redis,
         memory_cache |-> IF stored /\ f.set_fails
                          THEN CacheSet(memory_cache, k, fresh.rows, now)
                          ELSE memory_cache]

NoExec ==
    [done |-> FALSE, dept |-> <<>>, text |-> NoQuery,
     faults |-> [get_fails |-> FALSE, set_fails |-> FALSE, store_fails |-> FALSE],
     result |-> None, executed |-> FALSE, fresh |-> None,
     redis_before |-> EmptyCache, memory_before |-> EmptyCache,
     redis_after |-> EmptyCache, memory_after |-> EmptyCache]

IdleExec == exec_last = NoExec

InitExec ==
    /\ exec_last = NoExec
    /\ tables \in GenTables
    /\ reads = 0
    /\ load = Idle
    /\ redis = EmptyCache
    /\ memory_cache = EmptyCache
    /\ now = 0
    /\ ticks = 0
    /\ loads = 0
    /\ last = Last("init", <<>>, NoQuery, Both(None), Both(FALSE), <<>>)

execute_sql_query_faulty(query, dept, f) ==
    LET x == ExecuteFaulty(query, dept, f)
    IN  /\ reads < MaxReads
        /\ reads' = reads + 1
        /\ redis' = x.redis
        /\ memory_cache' = x.memory_cache
        /\ exec_last' =
               [done |-> TRUE, dept |-> dept, text |-> x.text, faults |-> f,
                result |-> x.result, executed |-> x.executed,
                fresh |-> ReadSqlQuery(x.text, tables),
                redis_before |-> redis, memory_before |-> memory_cache,
                redis_after |-> x.redis, memory_after |-> x.memory_cache]
        /\ last' = Last("execute", dept, x.text, Both(x.result), Both(x.executed),
                        x.text.table)
        /\ UNCHANGED <<tables, load, now, ticks, loads>>

(***************************************************************************)
(* SpecExplain: _generate_explanation on a question and a result frame.    *)
(* A result frame is its column names and its rows, a row a function from  *)
(* column names to values.  The sentence returned is recorded by its kind  *)
(* and by the number it reports.                                           *)
(***************************************************************************)
E_total_arrests == <<"t","o","t","a","l","_","a","r","r","e","s","t","s">>
E_count == <<"c","o","u","n","t">>
E_arrest_count == <<"a","r","r","e","s","t","_","c","o","u","n","t">>
E_arrests == <<"a","r","r","e","s","t","s">>
E_total_stops == <<"t","o","t","a","l","_","s","t","o","p","s">>
E_arrest_rate == <<"a","r","r","e","s","t","_","r","a","t","e">>
E_stops == <<"s","t","o","p","s">>
E_subject_race == <<"s","u","b","j","e","c","t","_","r","a","c","e">>
E_race == <<"r","a","c","e">>
E_black == <<"b","l","a","c","k">>
E_white == <<"w","h","i","t","e">>

Sentence(kind, n) == [kind |-> kind, n |-> n]

\* the first name of the sequence that is a column, <<>> when none is
FirstIn(names, columns) ==
    LET hits == { i \in 1..Len(names) : names[i] \in Range(columns) }
    IN  IF hits = {} THEN <<>> ELSE names[CHOOSE i \in hits : \A j \in hits : i <= j]

RECURSIVE SumOf(_, _)
SumOf(rows, col) == IF rows = <<>> THEN 0 ELSE Head(rows)[col] + SumOf(Tail(rows), col)

\* lines 416-429: the generic sentences
GenericExplanation(columns, rows) ==
    LET IsCount(c) == Contains(Lower(c), E_count)
        counts == SelectSeq(columns, IsCount)
    IN  IF E_total_arrests \in Range(columns)
        THEN Sentence("arrest_analysis", SumOf(rows, E_total_arrests))
        ELSE IF counts # <<>> THEN Sentence("count_analysis", SumOf(rows, counts[1]))
        ELSE Sentence("rows_returned", Len(rows))

\* PoliceDataLLMAgent._generate_explanation
GenerateExplanation(question, result_df) ==
    LET columns == result_df.columns
        rows == result_df.rows
        question_lower == Lower(question)
        Has(k) == Contains(question_lower, k)
    IN  IF rows = <<>> THEN Sentence("no_data", 0)
        ELSE IF Has(E_black) /\ Has(<<"a","r","r","e","s","t">>)
        THEN LET race_col == FirstIn(<<C_driver_race, E_subject_race, E_race>>, columns)
                 IsBlack(r) == Lower(r[race_col]) = E_black
                 black_data == SelectSeq(rows, IsBlack)
                 count_col == FirstIn(<<E_total_arrests, E_count, E_arrest_count>>, columns)
             IN  IF race_col = <<>> THEN GenericExplanation(columns, rows)
                 ELSE IF black_data = <<>> THEN Sentence("no_black_arrests", 0)
                 ELSE Sentence("black_arrested",
                               IF count_col # <<>> THEN black_data[1][count_col]
                               ELSE Len(black_data))
        ELSE IF /\ Has(<<"s","e","a","r","c","h"," ","r","a","t","e">>) \/ Has(<<"s","e","a","r","c","h","e","d">>)
                /\ \A i \in 1..Len(columns) : ~Contains(Lower(columns[i]), <<"s","e","a","r","c","h">>)
        THEN Sentence("search_not_available", 0)
        ELSE GenericExplanation(columns, rows)

\* a result frame from its columns and, row by row, its values
Result(columns, values) ==
    [columns |-> columns,
     rows |-> [r \in 1..Len(values) |->
                  [c \in Range(columns) |->
                      values[r][CHOOSE i \in 1..Len(columns) : columns[i] = c]]]]

\* the result of the comparative and of the race-grouped arrest template
\* (lines 174-195), of the race breakdown (241-247), of the arrest count
\* (170), of a query grouping arrests by race under the name total_arrests,
\* and of a query on the searches
ResultFrames ==
    { Result(<<C_driver_race, E_total_stops, E_arrests, E_arrest_rate>>,
             << <<E_black, 10, 3, 30>>, <<E_white, 20, 4, 20>> >>),
      Result(<<C_driver_race, E_total_stops, E_arrests, E_arrest_rate>>,
             << <<E_white, 20, 4, 20>> >>),
      Result(<<C_driver_race, E_stops>>, << <<E_white, 20>>, <<E_black, 10>> >>),
      Result(<<E_total_arrests>>, << <<7>> >>),
      Result(<<C_driver_race, E_total_arrests>>,
             << <<E_white, 4>>, <<<<"B","l","a","c","k">>, 3>> >>),
      Result(<<C_search_conducted, E_stops>>, << <<1, 5>>, <<0, 25>> >>),
      Result(<<E_total_stops>>, << <<30>> >>),
      Result(<<C_driver_race, E_stops>>, << >>) }

Q_search_rate == <<"W","h","a","t"," ","i","s"," ","t","h","e"," ","s","e","a","r","c","h"," ","r","a","t","e"," ","b","y"," ","r","a","c","e","?">>
Q_searched_black_arrest == <<"H","o","w"," ","o","f","t","e","n"," ","a","r","e"," ","b","l","a","c","k"," ","d","r","i","v","e","r","s"," ","s","e","a","r","c","h","e","d"," ","a","f","t","e","r"," ","a","n"," ","a","r","r","e","s","t","?">>
Q_how_many_blacks_arrested == <<"H","o","w"," ","m","a","n","y"," ","b","l","a","c","k","s"," ","w","e","r","e"," ","a","r","r","e","s","t","e","d","?">>

ExplainQuestions ==
    { Q_arrest_rate_black_white, Q_arrest_rate_by_race_black_white, Q_how_many_arrests,
      Q_how_many_arrests_by_race, Q_how_many_total_stops, Q_search_rate,
      Q_searched_black_arrest, Q_how_many_blacks_arrested, Q_empty }

NoExpCall == [question |-> <<>>, result_df |-> [columns |-> <<>>, rows |-> <<>>]]

NoSentence == [done |-> FALSE, sentence |-> Sentence("", 0)]

IdleExp == exp_call = NoExpCall /\ exp_result = NoSentence

InitExp ==
    /\ exp_call \in [question : ExplainQuestions, result_df : ResultFrames]
    /\ exp_result = NoSentence

generate_explanation ==
    /\ ~exp_result.done
    /\ exp_result' =
           [done |-> TRUE,
            sentence |-> GenerateExplanation(exp_call.question, exp_call.result_df)]
    /\ UNCHANGED exp_call

IdleName == department = <<>> /\ table_name = NoValue
IdleStd == df = <<>> /\ std_df = NoValue /\ clean_data = NoValue
IdleDb == InitDb
IdleGen == gen_call = NoCall /\ gen_result = NoResult
IdleSub == sub_query = NoSubQuery /\ sub_result = NoSub

Init == InitDb /\ IdleName /\ IdleStd /\ IdleGen /\ IdleSub /\ IdleExec /\ IdleExp

Next ==
    \/ \E d \in Departments, f \in Frames, ok \in BOOLEAN :
           store_drop(d, f, ok) /\ UNCHANGED <<nameVars, stdVars, genVars, subVars, execVars, expVars>>
    \/ \E ok \in BOOLEAN : store_write_data(ok) /\ UNCHANGED <<nameVars, stdVars, genVars, subVars, execVars, expVars>>
    \/ \E ok \in BOOLEAN : store_write_metadata(ok) /\ UNCHANGED <<nameVars, stdVars, genVars, subVars, execVars, expVars>>
    \/ \E q \in QueryInputs, d \in Departments :
           execute_sql_query(q, d) /\ UNCHANGED <<nameVars, stdVars, genVars, subVars, execVars, expVars>>
    \/ \E q \in Questions, d \in Departments, k \in BOOLEAN :
           \E o \in LLMCall(q, k) :
               answer_question(q, d, k, o) /\ UNCHANGED <<nameVars, stdVars, genVars, subVars, execVars, expVars>>
    \/ \E d \in Departments : get_police_data(d) /\ UNCHANGED <<nameVars, stdVars, genVars, subVars, execVars, expVars>>
    \/ \E d \in TickSizes : tick(d) /\ UNCHANGED <<nameVars, stdVars, genVars, subVars, execVars, expVars>>

Spec == Init /\ [][Next]_vars

\* loads, the clock and get_table_schema
NextSchema ==
    \/ \E d \in Departments, f \in Frames, ok \in BOOLEAN :
           store_drop(d, f, ok) /\ UNCHANGED <<nameVars, stdVars, genVars, subVars, execVars, expVars>>
    \/ \E ok \in BOOLEAN : store_write_data(ok) /\ UNCHANGED <<nameVars, stdVars, genVars, subVars, execVars, expVars>>
    \/ \E ok \in BOOLEAN : store_write_metadata(ok) /\ UNCHANGED <<nameVars, stdVars, genVars, subVars, execVars, expVars>>
    \/ \E d \in Departments : get_table_schema(d) /\ UNCHANGED <<nameVars, stdVars, genVars, subVars, execVars, expVars>>
    \/ \E d \in TickSizes : tick(d) /\ UNCHANGED <<nameVars, stdVars, genVars, subVars, execVars, expVars>>

SpecSchema == Init /\ [][NextSchema]_vars

InitStdSpec == InitStd /\ IdleName /\ IdleDb /\ IdleGen /\ IdleSub /\ IdleExec /\ IdleExp

NextStd ==
    \/ standardize_columns /\ UNCHANGED <<nameVars, dbVars, genVars, subVars, execVars, expVars>>
    \/ clean_for_store /\ UNCHANGED <<nameVars, dbVars, genVars, subVars, execVars, expVars>>

SpecStd == InitStdSpec /\ [][NextStd]_vars

InitNameSpec == InitName /\ IdleStd /\ IdleDb /\ IdleGen /\ IdleSub /\ IdleExec /\ IdleExp

NextName == get_table_name /\ UNCHANGED <<stdVars, dbVars, genVars, subVars, execVars, expVars>>

SpecName == InitNameSpec /\ [][NextName]_vars

InitGenSpec == InitGen /\ IdleName /\ IdleStd /\ IdleSub /\ IdleExec /\ IdleExp

NextGen ==
    generate_sql_query /\ UNCHANGED <<nameVars, stdVars, dbVars, subVars, execVars, expVars>>

SpecGen == InitGenSpec /\ [][NextGen]_vars

InitSubSpec == InitSub /\ IdleName /\ IdleStd /\ IdleGen /\ IdleDb /\ IdleExec /\ IdleExp

NextSub == substitute /\ UNCHANGED <<nameVars, stdVars, dbVars, genVars, execVars, expVars>>

SpecSub == InitSubSpec /\ [][NextSub]_vars

InitExecSpec == InitExec /\ IdleName /\ IdleStd /\ IdleGen /\ IdleSub /\ IdleExp

NextExec ==
    \/ \E q \in QueryInputs, d \in GenDepartments, f \in Faults :
           execute_sql_query_faulty(q, d, f)
               /\ UNCHANGED <<nameVars, stdVars, genVars, subVars, expVars>>
    \/ \E d \in TickSizes :
           tick(d) /\ UNCHANGED <<nameVars, stdVars, genVars, subVars, execVars, expVars>>

SpecExec == InitExecSpec /\ [][NextExec]_vars

InitExplainSpec == InitExp /\ IdleName /\ IdleStd /\ IdleDb /\ IdleGen /\ IdleSub /\ IdleExec

NextExplain ==
    generate_explanation /\ UNCHANGED <<nameVars, stdVars, dbVars, genVars, subVars, execVars>>

SpecExplain == InitExplainSpec /\ [][NextExplain]_vars


(***************************************************************************)
(* Claims about _get_table_name (SpecName)                                 *)
(***************************************************************************)
SeattlePD == <<"S","e","a","t","t","l","e"," ","P","o","l","i","c","e"," ","D","e","p","a","r","t","m","e","n","t">>

PoliceDataSeattle == <<"p","o","l","i","c","e","_","d","a","t","a","_","s","e","a","t","t","l","e">>

IsPrefix(p, q) == Len(p) <= Len(q) /\ SubSeq(q, 1, Len(p)) = p

\* C7: the table name is police_data_ followed by a suffix of lower-case
\* letters, digits and single underscores only (every other character of the
\* identifier collapsed to an underscore, no two underscores adjacent), and
\* 'Seattle Police Department' gives police_data_seattle.
C7_TableNameIsCleanIdentifier ==
    table_name # NoValue =>
        /\ IsPrefix(TablePrefix, table_name)
        /\ LET suffix == SubSeq(table_name, Len(TablePrefix) + 1, Len(table_name))
           IN  /\ \A i \in 1..Len(suffix) :
                      suffix[i] \in LowerLetters \cup Digits \cup {"_"}
               /\ ~Contains(suffix, <<"_","_">>)
        /\ (department = SeattlePD => table_name = PoliceDataSeattle)

(***************************************************************************)
(* Claims about _standardize_columns and the sanitization (SpecStd)        *)
(***************************************************************************)
ColumnOf(t, name) == t[CHOOSE i \in 1..Len(t) : t[i].name = name]

IsNullColumn(t, name) == HasColumn(t, name) /\ ColumnOf(t, name).src = NullSrc

RequiredNames == Range(required_columns)

\* no source column is renamed to the name by the standardizer
Unmapped(name) == \A i \in 1..Len(df) : Mapped(df[i].name) # name

\* no source column ends up under the name in the persisted frame
UnmappedAfterCleaning(name) == \A i \in 1..Len(df) : CleanCol(Mapped(df[i].name)) # name

\* C8: for every source table the output of _standardize_columns and the
\* frame store_police_data persists from it contain stop_date, driver_race
\* and driver_gender, and each of them that no source column maps to is an
\* all-null column.
C8_RequiredColumnsPresent ==
    /\ std_df # NoValue =>
           \A r \in RequiredNames :
               /\ HasColumn(std_df, r)
               /\ Unmapped(r) => IsNullColumn(std_df, r)
    /\ clean_data # NoValue =>
           \A r \in RequiredNames :
               /\ HasColumn(clean_data, r)
               /\ UnmappedAfterCleaning(r) => IsNullColumn(clean_data, r)

\* a source table with columns none of which maps to a required field has
\* been standardized and cleaned, and all three fields are null columns
C8_Witness ==
    /\ df # <<>>
    /\ \A r \in RequiredNames : Unmapped(r) /\ UnmappedAfterCleaning(r)
    /\ std_df # NoValue
    /\ clean_data # NoValue
    /\ \A r \in RequiredNames : IsNullColumn(std_df, r) /\ IsNullColumn(clean_data, r)

\* C9: the column names of the output of _standardize_columns, and those of
\* the frame store_police_data persists after sanitizing the names, contain
\* no name twice.
C9_NoDuplicateColumns ==
    /\ std_df # NoValue => Distinct(Names(std_df))
    /\ clean_data # NoValue => Distinct(Names(clean_data))

\* two source columns were mapped to one canonical name, and two further
\* names collided only after sanitization
C9_Witness ==
    /\ std_df # NoValue
    /\ clean_data # NoValue
    /\ \E i, j \in 1..Len(df) : i # j /\ Mapped(df[i].name) = Mapped(df[j].name)
    /\ Len(clean_data) < Len(std_df)

IsCanonicalTable(t) ==
    /\ Distinct(Names(t))
    /\ Range(Names(t)) \subseteq Range(CanonicalNames)
    /\ RequiredNames \subseteq Range(Names(t))

C11_ScenarioColumnsMapped ==
    (df = FrameOf(ScenarioColumns) /\ clean_data # NoValue) =>
        LET target == <<C_driver_race, C_driver_gender, C_arrest_made, C_stop_date>>
        IN  /\ TableOf[SeattlePD] = PoliceDataSeattle
            /\ \A i \in 1..Len(target) :
                   /\ HasColumn(clean_data, target[i])
                   /\ ColumnOf(clean_data, target[i]).src = i

\* C12: from a source with a lng column and a longitude column, in either
\* order, the output has exactly one longitude column and no lng column,
\* and the longitude column carries the values of the source's longitude.
C12_LongitudeKept ==
    std_df # NoValue =>
        \A i, j \in 1..Len(df) :
            (df[i].name = C_lng /\ df[j].name = C_longitude) =>
                /\ Cardinality({k \in 1..Len(std_df) : std_df[k].name = C_longitude}) = 1
                /\ ~HasColumn(std_df, C_lng)
                /\ ColumnOf(std_df, C_longitude).src = j

\* the source columns renamed to the name that column i is renamed to
SameTarget(i) == { j \in 1..Len(df) : Mapped(df[j].name) = Mapped(df[i].name) }

First(I) == CHOOSE i \in I : \A j \in I : i <= j

\* C13: when several source columns are renamed to one name, the output has
\* exactly one column of that name, and it carries the values of the one
\* that comes first in the source's column order.
C13_FirstWins ==
    std_df # NoValue =>
        \A i \in 1..Len(df) :
            Cardinality(SameTarget(i)) > 1 =>
                LET n == Mapped(df[i].name)
                IN  /\ Cardinality({k \in 1..Len(std_df) : std_df[k].name = n}) = 1
                    /\ ColumnOf(std_df, n).src = First(SameTarget(i))

\* the second and the third source column were renamed to one name, the
\* first to another: the output carries the values of the second
C13_Witness ==
    /\ std_df # NoValue
    /\ Len(df) = 3
    /\ SameTarget(2) = {2, 3}
    /\ ColumnOf(std_df, Mapped(df[2].name)).src = 2
    /\ ~HasColumn(std_df, df[3].name)


(***************************************************************************)
(* SpecDept: loads and reads for several department identifiers            *)
(***************************************************************************)
\* the departments are loaded with the frame that has rows
DeptFrames == { f \in Frames : f.rows # <<>> }

NextDept ==
    \/ \E d \in AllDepartments, f \in DeptFrames, ok \in BOOLEAN :
           store_drop(d, f, ok) /\ UNCHANGED <<nameVars, stdVars, genVars, subVars, execVars, expVars>>
    \/ \E ok \in BOOLEAN : store_write_data(ok) /\ UNCHANGED <<nameVars, stdVars, genVars, subVars, execVars, expVars>>
    \/ \E ok \in BOOLEAN : store_write_metadata(ok) /\ UNCHANGED <<nameVars, stdVars, genVars, subVars, execVars, expVars>>
    \/ \E d \in AllDepartments :
           execute_sql_query(Query("select_all", Placeholder), d) /\ UNCHANGED <<nameVars, stdVars, genVars, subVars, execVars, expVars>>
    \/ \E d \in AllDepartments : get_police_data(d) /\ UNCHANGED <<nameVars, stdVars, genVars, subVars, execVars, expVars>>

SpecDept == Init /\ [][NextDept]_vars


(***************************************************************************)
(* Claims about the store and the cache (Spec)                             *)
(***************************************************************************)
CacheOf(b) == IF b = "redis" THEN redis ELSE memory_cache

\* C1: two questions with the same final query text, answered one after the
\* other, cost one execution against the store: the later answer returns the
\* cached rows and asks the store nothing, under either backend.
C1_OneExecutionPerQueryText ==
    [][ \A b \in Backends :
            ( /\ last.op = "answer"
              /\ last.result[b].ok
              /\ reads' # reads
              /\ last'.op = "answer"
              /\ last'.text = last.text )
            => /\ ~last'.executed[b]
               /\ last'.result[b] = last.result[b] ]_vars

\* C2: every read returns the same rows under the Redis backend and under
\* the in-process backend.
C2_BackendAgnostic == last.result["redis"] = last.result["memory"]

\* C3: store_police_data leaves every cache entry as it is; execute_sql_query
\* returns the rows of an entry cached for its text as long as the entry has
\* not expired, and executes against the current table once it has.
C3_StaleUntilExpiry ==
    [][ /\ load' # load => (redis' = redis /\ memory_cache' = memory_cache)
        /\ (reads' # reads /\ last'.op = "execute") =>
               \A b \in Backends :
                   LET c == CacheOf(b)
                       k == QueryKey(last'.text)
                   IN  k \in DOMAIN c =>
                           IF Live(c, k, now)
                           THEN last'.result[b] = Rows(c[k].value)
                           ELSE last'.result[b] = ReadSqlQuery(last'.text, tables) ]_vars

\* C4: a department's data table and its metadata table are replaced
\* atomically: in every state either both exist and come from one load, or
\* neither exists.
C4_AtomicReplace ==
    \A d \in Departments :
        LET tn == TableOf[d]
        IN  /\ tn \in DOMAIN tables <=> MetadataTable(tn) \in DOMAIN tables
            /\ tn \in DOMAIN tables => tables[tn].load = tables[MetadataTable(tn)].load

\* C5: after a successful store_police_data the department's table holds
\* exactly the rows and the columns of that call, and nothing but a load
\* changes a table.
C5_LastLoadWins ==
    [][ /\ (load.pc = "data_written" /\ load'.pc = "idle" /\ last'.result["redis"].ok) =>
               LET tn == TableOf[load.dept]
               IN  /\ tn \in DOMAIN tables'
                   /\ tables'[tn].rows = load.frame.rows
                   /\ tables'[tn].columns = Names(CleanData(load.frame.columns))
                   /\ tables'[tn].load = load.id
        /\ load' = load => tables' = tables ]_vars

\* the department was loaded with two rows, the rows were read and cached,
\* and a second load with no rows succeeded: the table holds no row
C5_Witness ==
    /\ load.pc = "idle"
    /\ loads = 2
    /\ last.op = "store"
    /\ last.result["redis"].ok
    /\ \E d \in Departments :
           /\ TableOf[d] \in DOMAIN tables
           /\ tables[TableOf[d]].rows = <<>>
           /\ tables[TableOf[d]].load = 2
           /\ DataKey(TableOf[d]) \in DOMAIN redis
           /\ redis[DataKey(TableOf[d])].value = <<1, 2>>

\* C14: every column a pattern-tier template names exists in every table
\* that has been loaded, so no pattern-tier query on a loaded department
\* fails on a missing column.
C14_TemplateColumnsExist ==
    \A d \in Departments :
        TableOf[d] \in DOMAIN tables =>
            \A i \in 1..Len(PatternTemplates) :
                /\ TemplateColumns(PatternTemplates[i]) \subseteq Range(tables[TableOf[d]].columns)
                /\ ReadSqlQuery(Query(PatternTemplates[i], TableOf[d]), tables).ok


(***************************************************************************)
(* Claims about departments (SpecDept)                                     *)
(***************************************************************************)
Chicago == <<"C","h","i","c","a","g","o">>

\* the tables a department owns
OwnTables(d) == {TableOf[d], MetadataTable(TableOf[d])}

\* the cache keys a department's reads use
IsKeyOf(k, d) ==
    \E n \in OwnTables(d) : k = DataKey(n) \/ k = QueryKey(Query(k.tmpl, n))

TableEntry(tbls, n) == IF n \in DOMAIN tbls THEN <<tbls[n]>> ELSE <<>>

CacheEntry(c, k) == IF k \in DOMAIN c THEN <<c[k]>> ELSE <<>>

\* the step is a step of a load or a read for department d
ActsFor(d) ==
    \/ load' # load /\ d = (IF load.pc = "idle" THEN load'.dept ELSE load.dept)
    \/ reads' # reads /\ d = last'.dept

\* the step neither changes nor reads what belongs to department d
Untouched(d) ==
    /\ \A n \in OwnTables(d) : TableEntry(tables', n) = TableEntry(tables, n)
    /\ \A k \in DOMAIN redis \cup DOMAIN redis' :
           IsKeyOf(k, d) => CacheEntry(redis', k) = CacheEntry(redis, k)
    /\ \A k \in DOMAIN memory_cache \cup DOMAIN memory_cache' :
           IsKeyOf(k, d) => CacheEntry(memory_cache', k) = CacheEntry(memory_cache, k)
    /\ reads' # reads => last'.read \notin OwnTables(d)

Independent(d1, d2) == OwnTables(d1) \cap OwnTables(d2) = {}

FromModel(r) == r.query.tmpl \in {"empty", "llm_select", "bad_sql"}

\* C15: generate_sql_query never raises and always returns a non-empty
\* query string bound to the department's table, for every question and
\* every outcome of the generative tier (the call raises, the response is
\* empty, only a reasoning block, or malformed).
C15_TotalNonEmptyBound ==
    gen_result.returned =>
        IF FromModel(gen_result)
        THEN /\ gen_result.text # <<>>
             /\ Contains(gen_result.text, TableOf[gen_call.dept])
        ELSE /\ gen_result.query.tmpl # ""
             /\ gen_result.query.table = TableOf[gen_call.dept]

\* C16: the pattern tier is first-match-wins with the comparative
\* two-group predicate before the generic race predicate, and the 'how
\* many arrests' predicate excludes questions mentioning race: 'arrest
\* rate for black vs white' yields the comparative template, also when the
\* question mentions race, and 'how many arrests were there' yields the
\* plain arrest count, which a question mentioning race never gets.
C16_FirstMatchWins ==
    gen_result.returned =>
        LET q == gen_call.question
            tmpl == gen_result.query.tmpl
        IN  /\ q = Q_arrest_rate_black_white => tmpl = "compare_arrest_rate"
            /\ q = Q_arrest_rate_by_race_black_white => tmpl = "compare_arrest_rate"
            /\ q = Q_how_many_arrests => tmpl = "total_arrests"
            /\ q = Q_how_many_arrests_by_race => tmpl = "arrests_by_race"
            /\ Contains(Lower(q), <<"r","a","c","e">>) => tmpl # "total_arrests"

C16_Witness ==
    /\ gen_result.returned
    /\ gen_call.question = Q_arrest_rate_by_race_black_white
    /\ gen_result.query = Query("compare_arrest_rate", TableOf[gen_call.dept])

\* C17: the model is called only if no pattern-tier predicate matches and
\* a credential is configured; with no match and no credential the result
\* is the trivial COUNT(*) query on the department's table and no call is
\* made.
C17_ModelCalledOnlyAsFallback ==
    gen_result.returned =>
        LET q == gen_call.question
        IN  /\ gen_result.called => PatternOf[q] = "" /\ gen_call.llm_available
            /\ PatternOf[q] = "" /\ ~gen_call.llm_available =>
                   /\ ~gen_result.called
                   /\ gen_result.query = Query("total_stops", TableOf[gen_call.dept])

C17_Witness ==
    /\ gen_result.returned
    /\ PatternOf[gen_call.question] = ""
    /\ ~gen_call.llm_available
    /\ HasTableInfo(gen_call.dept)
    /\ ~gen_result.called
    /\ gen_result.query = Query("total_stops", TableOf[gen_call.dept])

\* C18: 'How many total stops?' is matched by the total-stop predicate of
\* the pattern tier, with or without a credential, and yields the COUNT(*)
\* query on the department's table.
C18_TotalStopsMatched ==
    gen_result.returned /\ gen_call.question = Q_how_many_total_stops =>
        /\ PatternOf[gen_call.question] = "total_stops"
        /\ ~gen_result.called
        /\ gen_result.query = Query("total_stops", TableOf[gen_call.dept])

(***************************************************************************)
(* Claims about the table-name substitution (SpecSub)                      *)
(***************************************************************************)
\* every occurrence of the placeholder in s lies inside an occurrence of tn
OnlyConcrete(s, tn) ==
    /\ Contains(s, tn)
    /\ \A i \in 1..Len(s) :
           StartsWithAt(s, i, Placeholder) =>
               \E j \in 1..i : /\ StartsWithAt(s, j, tn)
                               /\ i + Len(Placeholder) <= j + Len(tn)

\* C19: the substitution replaces the placeholder only as a whole word not
\* followed by an underscore: a query whose only placeholders are those of
\* the concrete table name is left unchanged, and substituting twice gives
\* the text substituting once gives.
C19_SubstitutionSafe ==
    sub_result.done =>
        LET tn == SubTableOf[sub_query.dept]
        IN  /\ OnlyConcrete(sub_query.text, tn) => sub_result.once = sub_query.text
            /\ sub_result.twice = sub_result.once

\* the same for the departments whose table name is made of word characters
C19_SafeForWordNames ==
    sub_result.done /\ Range(SubTableOf[sub_query.dept]) \subseteq WordChars =>
        LET tn == SubTableOf[sub_query.dept]
        IN  /\ OnlyConcrete(sub_query.text, tn) => sub_result.once = sub_query.text
            /\ sub_result.twice = sub_result.once

(***************************************************************************)
(* Claims about execute_sql_query under failures (SpecExec)                *)
(***************************************************************************)
\* the execution of the last call failed in the store
StoreFailed == exec_last.executed /\ (exec_last.faults.store_fails \/ ~exec_last.fresh.ok)

\* the client of the cache failed in the last call
CacheFailed == exec_last.faults.get_fails \/ exec_last.faults.set_fails

NothingStored ==
    /\ exec_last.redis_after = exec_last.redis_before
    /\ exec_last.memory_after = exec_last.memory_before

\* C20: execute_sql_query returns None on any failure of the store or of
\* the cache, and a failed execution stores nothing in the cache.
C20_AnyFailureGivesNone ==
    exec_last.done =>
        /\ StoreFailed \/ CacheFailed => exec_last.result = None
        /\ StoreFailed => NothingStored

\* C20 as the code has it: a failure of the store gives None and stores
\* nothing; a failure of the cache client alone is absorbed, the call
\* returns the rows of the query (or the live entry of the in-process map)
\* and a result that could not be stored in Redis is kept in that map.
C20_StoreFailureGivesNone ==
    exec_last.done =>
        LET k == QueryKey(exec_last.text)
            f == exec_last.faults
        IN  /\ StoreFailed => exec_last.result = None /\ NothingStored
            /\ exec_last.result = None => NothingStored
            /\ exec_last.executed /\ ~StoreFailed =>
                   /\ exec_last.result = exec_last.fresh
                   /\ IF f.set_fails
                      THEN /\ k \in DOMAIN exec_last.memory_after
                           /\ exec_last.redis_after = exec_last.redis_before
                      ELSE /\ k \in DOMAIN exec_last.redis_after
                           /\ exec_last.memory_after = exec_last.memory_before
            /\ ~exec_last.executed =>
                   /\ Truthy(exec_last.result)
                   /\ NothingStored

C20_Witness ==
    /\ exec_last.done
    /\ exec_last.faults.get_fails
    /\ exec_last.faults.set_fails
    /\ ~exec_last.faults.store_fails
    /\ exec_last.executed
    /\ Truthy(exec_last.result)
    /\ QueryKey(exec_last.text) \in DOMAIN exec_last.memory_after
    /\ exec_last.redis_before # EmptyCache

(***************************************************************************)
(* Claims about the answers and the reloads (Spec)                         *)
(***************************************************************************)
\* C21: execute_query_and_explain reports success:false exactly when the
\* generation or the execution of the query failed, and then carries the
\* attempted query; a query executed without store error, one returning
\* zero rows included, is reported as success:true with its rows.
C21_FailureExactlyOnError ==
    last.op = "answer" =>
        \A b \in Backends :
            LET r == Response(last.text, last.result[b])
                failed == last.text.tmpl = "empty" \/ ~last.result[b].ok
            IN  /\ r.success = ~failed
                /\ ~r.success => r.has_query
                /\ r.success => r.results = last.result[b]

(***************************************************************************)
(* Claims about _generate_explanation (SpecExplain)                        *)
(***************************************************************************)
AsksSearchRate(question) ==
    \/ Contains(Lower(question), <<"s","e","a","r","c","h"," ","r","a","t","e">>)
    \/ Contains(Lower(question), <<"s","e","a","r","c","h","e","d">>)

NoSearchColumn(result_df) ==
    \A i \in 1..Len(result_df.columns) :
        ~Contains(Lower(result_df.columns[i]), <<"s","e","a","r","c","h">>)

\* C22: whenever the question asks about the search rate and the result
\* has rows but no column whose name contains 'search', the sentence
\* returned says that search data is not available, whatever else the
\* question mentions.
C22_SearchUnavailableStated ==
    /\ exp_result.done
    /\ AsksSearchRate(exp_call.question)
    /\ NoSearchColumn(exp_call.result_df)
    /\ exp_call.result_df.rows # <<>>
    => exp_result.sentence.kind = "search_not_available"

\* the rows of the group in a result of the comparative template
GroupRows(result_df, group) ==
    LET Is(r) == Lower(r[C_driver_race]) = group
    IN  SelectSeq(result_df.rows, Is)

\* C23: for 'arrest rate for black vs white' and the result of the
\* comparative template, the sentence names the group and reports the
\* number of arrests of that group in the result rows, not the number of
\* result rows.
C23_ReportsArrestsOfGroup ==
    /\ exp_result.done
    /\ exp_call.question = Q_arrest_rate_black_white
    /\ exp_call.result_df.columns = <<C_driver_race, E_total_stops, E_arrests, E_arrest_rate>>
    /\ GroupRows(exp_call.result_df, E_black) # <<>>
    => /\ exp_result.sentence.kind = "black_arrested"
       /\ exp_result.sentence.n = GroupRows(exp_call.result_df, E_black)[1][E_arrests]

(***************************************************************************)
(* Claims about _clean_sql_response (SpecGen)                              *)
(***************************************************************************)
\* C24: for every raw response the output of _clean_sql_response holds no
\* reasoning delimiter and no code fence, does not end with ';' and does
\* not end in an ORDER without BY.
C24_CleanedResponseIsClean ==
    gen_result.returned =>
        LET out == CleanSqlResponse(gen_call.response)
        IN  /\ ~Contains(out, ThinkOpen)
            /\ ~Contains(out, ThinkClose)
            /\ ~Contains(out, Fence)
            /\ ~EndsWith(out, <<";">>)
            /\ ~EndsWith(Upper(out), <<"O","R","D","E","R">>)

(***************************************************************************)
(* Claims about the pattern tier (SpecGen)                                 *)
(***************************************************************************)
\* C25: a pattern-tier query depends on the question only through the
\* predicate that matched: it is the template of that predicate bound to
\* the department's table, the same for every question matching that
\* predicate first, whatever the credential and the model do, and nothing
\* of the question is part of it.
C25_QueryDependsOnPredicateOnly ==
    gen_result.returned /\ PatternOf[gen_call.question] # "" =>
        /\ gen_result.query = Query(PatternOf[gen_call.question], TableOf[gen_call.dept])
        /\ gen_result.query.tmpl \in Range(PatternTemplates)
        /\ ~gen_result.called
        /\ \A q \in GenQuestions, k \in BOOLEAN, o \in LLMOutcomes :
               PatternOf[q] = PatternOf[gen_call.question] =>
                   GenerateSqlQuery(q, gen_call.dept, k, o) = gen_result.query

C25_Witness ==
    /\ gen_result.returned
    /\ gen_call.question = Q_injection_stops
    /\ ~gen_call.llm_available
    /\ gen_result.query = Query("total_stops", TableOf[gen_call.dept])
    /\ \E q \in GenQuestions \ {Q_injection_stops} : PatternOf[q] = "total_stops"

(***************************************************************************)
(* Claims about a reload (Spec)                                            *)
(***************************************************************************)
\* a read of the table of the department being reloaded, made between the
\* committed drop and the to_sql of a department that was loaded before
ReadDuringReload ==
    /\ last.op \in {"execute", "answer", "get_data"}
    /\ load.pc = "dropped"
    /\ load.loaded
    /\ TableOf[load.dept] \notin DOMAIN tables
    /\ last.read = TableOf[load.dept]

\* C26 as stated: every read of the department made while its table is
\* dropped and not yet recreated returns None, with either backend.
C26_ReadDuringReloadGivesNone ==
    ReadDuringReload => \A b \in Backends : last.result[b] = None

\* C26: while a loaded department is reloaded its table is missing, and a
\* read made then that reaches the store returns None; a read answered from
\* a live cache entry does not reach the store and returns the cached rows.
C26_StoreReadDuringReloadGivesNone ==
    ReadDuringReload =>
        \A b \in Backends :
            /\ last.executed[b] => last.result[b] = None
            /\ ~last.executed[b] /\ last.text.tmpl # "empty" => Truthy(last.result[b])

\* the second load has dropped the table; a question is answered then: with
\* Redis the rows cached after the first load come back, with the in-process
\* map of the new agent the store is asked and None comes back
C26_Witness ==
    /\ ReadDuringReload
    /\ load.id = 2
    /\ last.executed["memory"]
    /\ last.result["memory"] = None
    /\ ~last.executed["redis"]
    /\ last.result["redis"].ok

(***************************************************************************)
(* Claims about the in-process cache (Spec)                                *)
(***************************************************************************)
\* the cache key of the last read of app.db_manager
ReadKey == IF last.op = "get_data" THEN DataKey(last.read) ELSE QueryKey(last.text)

\* C27: with the in-process map, a read is answered from the map only by an
\* entry whose expiry is strictly later than the clock, and with the value
\* of that entry; an entry found expired is reported absent (the store is
\* asked) and deleted, so that it is gone when the store gives nothing, and
\* the cache_set that follows a result puts the key back with the expiry
\* clock + TTL.  No entry has an expiry later than clock + TTL.
C27_ExpiredNeverReturned ==
    /\ \A k \in DOMAIN memory_cache : memory_cache[k].expiry <= now + CACHE_EXPIRY
    /\ last.op \in {"execute", "get_data"} =>
           LET r == last.result["memory"]
           IN  /\ ~last.executed["memory"] =>
                      /\ ~last.stale
                      /\ ReadKey \in DOMAIN memory_cache
                      /\ memory_cache[ReadKey].expiry > now
                      /\ memory_cache[ReadKey].value = r.rows
               /\ last.stale =>
                      /\ last.executed["memory"]
                      /\ IF r.ok
                         THEN /\ ReadKey \in DOMAIN memory_cache
                              /\ memory_cache[ReadKey] =
                                     [value |-> r.rows, expiry |-> now + CACHE_EXPIRY]
                         ELSE ReadKey \notin DOMAIN memory_cache

\* the rows were cached at time 0 and are read again in the very second of
\* their expiry: the entry is not served, the store is asked and the key is
\* set again
C27_Witness ==
    /\ last.op \in {"execute", "get_data"}
    /\ last.stale
    /\ now = CACHE_EXPIRY
    /\ last.executed["memory"]
    /\ last.result["memory"].ok
    /\ memory_cache[ReadKey].expiry = 2 * CACHE_EXPIRY

\* the same read with the table dropped meanwhile: the expired entry is
\* deleted and nothing replaces it
C27_WitnessDeleted ==
    /\ last.op \in {"execute", "get_data"}
    /\ last.stale
    /\ now = CACHE_EXPIRY
    /\ last.executed["memory"]
    /\ ~last.result["memory"].ok
    /\ ReadKey \notin DOMAIN memory_cache

(***************************************************************************)
(* Claims about what store_police_data leaves in the file (Spec)           *)
(***************************************************************************)
\* store_police_data has just returned the table name
StoreSucceeded == last.op = "store" /\ last.result["redis"].ok

\* C28: after a successful store_police_data the metadata stored with the
\* table describes it: its row count is the number of rows of the table and
\* its column list is the list of the column names of the table.
C28_MetadataDescribesTable ==
    StoreSucceeded =>
        LET tn == TableOf[last.dept]
        IN  /\ tn \in DOMAIN tables
            /\ MetadataTable(tn) \in DOMAIN tables
            /\ tables[MetadataTable(tn)].described.rows = Len(tables[tn].rows)
            /\ tables[MetadataTable(tn)].described.columns = tables[tn].columns

\* the part of C28 about the row count, which the source keeps
C28_RowCountDescribesTable ==
    StoreSucceeded =>
        tables[MetadataTable(TableOf[last.dept])].described.rows
            = Len(tables[TableOf[last.dept]].rows)

\* C29: when store_police_data returns None for a department that had its
\* table and its metadata when the call began, both tables are there as
\* they were: present, and written by an earlier call (a table is written
\* by to_sql only, which stamps it with the number of its call).
C29_FailedStoreKeepsPrevious ==
    [][ /\ load.pc # "idle"
        /\ load'.pc = "idle"
        /\ ~last'.result["redis"].ok
        /\ load.loaded
        => LET tn == TableOf[load.dept]
           IN  /\ tn \in DOMAIN tables'
               /\ MetadataTable(tn) \in DOMAIN tables'
               /\ tables'[tn].load < load.id
               /\ tables'[MetadataTable(tn)].load < load.id ]_vars

(***************************************************************************)
(* Claims about get_table_schema (SpecSchema)                              *)
(***************************************************************************)
\* C30: get_table_schema called when the department's last load succeeded
\* returns the column list of the table stored for the department, with
\* either backend, whatever was asked before.
C30_SchemaIsCurrent ==
    /\ last.op = "schema"
    /\ load.pc = "idle"
    /\ last.read \in DOMAIN tables
    /\ MetadataTable(last.read) \in DOMAIN tables
    /\ tables[last.read].load = tables[MetadataTable(last.read)].load
    => \A b \in Backends : last.result[b] = Rows(tables[last.read].columns)

\* what holds instead: a call that reaches the store returns the columns
\* stored, a call answered from the cache the list computed by an earlier
\* call within the expiry time
C30_SchemaFromStoreIsCurrent ==
    last.op = "schema" =>
        \A b \in Backends :
            last.executed[b] => last.result[b] = Rows(TableInfo(last.read, tables))

====
